---- MODULE Spec2Model ----
(***************************************************************************)
(* NetMount server: the request/response protocol engine                   *)
(* (netmount-server.cpp: main loop, process_request, reply cache) over the *)
(* virtual FAT view of one shared drive (fs.cpp: Drive).                   *)
(*                                                                         *)
(* Packets are sequences of bytes (0..255), 1-based: byte k of the wire    *)
(* format is element k+1.  Names are sequences of character codes, paths   *)
(* are sequences of names.                                                 *)
(***************************************************************************)
EXTENDS Integers, Sequences, FiniteSets, TLC

VARIABLES
    cache,      \* answer_cache.items: 16 ReplyInfo entries
    now,        \* the value time(NULL) returns
    running,    \* "serving": in the main loop; "stopped": an exception left it;
                \* "undefined": a handler wrote past the reply buffer
    fsys,       \* the host filesystem: existing directories and files
    items,      \* the shared drive's handle table (Drive::items)
    conv,       \* the shared drive's name_conversion: "OFF" or "RAM"
    seen,       \* number of one-shot peers that have sent their datagram
    answered,   \* per peer: sequence number and function of its last validated
                \* request and the reply sent for it, if that request was
                \* dispatched and answered, and the bytes last sent to the peer
    obs,        \* what the loop did with the last datagram it received
    call,       \* the last call made on the drive itself, and what it returned
    exit_flag,  \* the flag the signal handler sets
    pc,         \* where the main loop stands: "test" (the while condition),
                \* "call_select" (about to enter select), "select" (in
                \* select), "receive" (select said READY), "process" (the
                \* datagram is read and being served), "exited"
    inbox       \* the datagrams in the socket's receive queue, each with its
                \* sender and whether it arrived after a signal

vars == <<cache, now, running, fsys, items, conv, seen, answered, obs, call,
          exit_flag, pc, inbox>>

\* the state of the signal handling
signals == <<exit_flag, pc, inbox>>

-----------------------------------------------------------------------------
(* Bounds of the model *)

MaxTime == 2        \* the clock runs from 1 to MaxTime
NumPeers == 2       \* peers that send any number of datagrams
MaxSeq == 2         \* sequence numbers 1..MaxSeq

-----------------------------------------------------------------------------
(* Wire constants *)

REPLY_CACHE_SIZE == 16
PACKET_SIZE == 1500             \* ReplyInfo::packet
RECV_BUFFER_SIZE == 2048        \* request_packet in main
HDR_SIZE == 10                  \* sizeof(struct drive_proto_hdr)
DRIVE_PROTO_VERSION == 1
DRIVE_PROTO_MAGIC == 19790
MAX_DRIVERS_COUNT == 26

\* DOS extended error codes
DOS_EXTERR_NO_ERROR == 0
DOS_EXTERR_FILE_NOT_FOUND == 2
DOS_EXTERR_PATH_NOT_FOUND == 3
DOS_EXTERR_ACCESS_DENIED == 5
DOS_EXTERR_NO_MORE_FILES == 18
DOS_EXTERR_WRITE_FAULT == 29

\* INT 2Fh subfunctions
INT2F_REMOVE_DIR == 1
INT2F_MAKE_DIR == 3
INT2F_CLOSE_FILE == 6
INT2F_READ_FILE == 8
INT2F_DISK_INFO == 12
INT2F_RENAME_FILE == 17
INT2F_DELETE_FILE == 19
INT2F_OPEN_FILE == 22
INT2F_CREATE_FILE == 23
INT2F_FIND_FIRST == 27
INT2F_SEEK_FROM_END == 33
INT2F_EXTENDED_OPEN_CREATE_FILE == 46

\* CX of EXTENDED_OPEN_CREATE
DOS_EXT_OPEN_FILE_RESULT_CODE_OPENED == 1
DOS_EXT_OPEN_FILE_RESULT_CODE_CREATED == 2
DOS_EXT_OPEN_FILE_RESULT_CODE_TRUNCATED == 3
INT2F_UNKNOWN == 255            \* a code no case of the switch handles

-----------------------------------------------------------------------------
(* Little-endian words and the BSD checksum *)

\* to_little16 followed by the store into the packed struct: two bytes
to_little16(w) == << w % 256, (w \div 256) % 256 >>

\* to_little32: four bytes
to_little32(w) == << w % 256, (w \div 256) % 256, (w \div 65536) % 256, (w \div 16777216) % 256 >>

\* from_little16 of the two bytes at offset off
from_little16(pkt, off) == pkt[off] + 256 * pkt[off + 1]

\* from_little32 of the four bytes at offset off
from_little32(pkt, off) ==
    pkt[off] + 256 * pkt[off + 1] + 65536 * pkt[off + 2] + 16777216 * pkt[off + 3]

\* bytes lo..hi of pkt; empty when hi < lo
Bytes(pkt, lo, hi) == IF hi < lo THEN << >> ELSE SubSeq(pkt, lo, hi)

\* memory after writing src at the start of dst: the bytes of dst that src does
\* not cover stay as they were
Overlay(dst, src) == src \o Bytes(dst, Len(src) + 1, Len(dst))

\* a sum of the bytes without the rotation
RECURSIVE bsd_checksum_loop_sum(_, _, _)
bsd_checksum_loop_sum(bytes, i, res) ==
    IF i > Len(bytes) THEN res
    ELSE bsd_checksum_loop_sum(bytes, i + 1, (res + bytes[i]) % 65536)

RECURSIVE bsd_checksum_loop(_, _, _)
bsd_checksum_loop(bytes, i, res) ==
    IF i > Len(bytes) THEN res
    ELSE bsd_checksum_loop(bytes, i + 1,
                           ((((res * 32768) % 65536) + (res \div 2)) + bytes[i]) % 65536)

\* bsd_checksum(addr, len) over the bytes given
bsd_checksum(bytes) == bsd_checksum_loop(bytes, 1, 0)

-----------------------------------------------------------------------------
(* Characters, names and client paths *)

ascii_to_upper(c) == IF c >= 97 /\ c <= 122 THEN c - 32 ELSE c

ascii_to_lower(c) == IF c >= 65 /\ c <= 90 THEN c + 32 ELSE c

NAME_DOT == << 46 >>            \* "."
NAME_DOTDOT == << 46, 46 >>     \* ".."

\* the pieces of str between '/' characters, empty pieces included
RECURSIVE Tokens(_, _, _)
Tokens(str, i, cur) ==
    IF i > Len(str) THEN << cur >>
    ELSE IF str[i] = 47 THEN << cur >> \o Tokens(str, i + 1, << >>)
    ELSE Tokens(str, i + 1, Append(cur, str[i]))

\* the elements std::filesystem::path(str).relative_path() iterates over: the
\* root directory is dropped, runs of separators count once, and a trailing
\* separator gives an empty last element
PathElements(str) ==
    LET names == SelectSeq(Tokens(str, 1, << >>), LAMBDA t : t # << >>)
    IN  IF names # << >> /\ str[Len(str)] = 47 THEN Append(names, << >>) ELSE names

\* create_relative_path: lower case, '\' becomes '/', then relative_path()
create_relative_path(buff) ==
    PathElements([i \in 1..Len(buff) |->
                    IF ascii_to_lower(buff[i]) = 92 THEN 47 ELSE ascii_to_lower(buff[i])])

\* path.parent_path() and path.filename() of a path given by its elements
parent_path(p) == IF p = << >> THEN << >> ELSE SubSeq(p, 1, Len(p) - 1)
filename(p) == IF p = << >> THEN << >> ELSE p[Len(p)]

\* lexically_normal: "." and empty elements vanish, ".." removes the element
\* before it (and stays at the filesystem root)
RECURSIVE Normalize(_, _, _)
Normalize(p, i, acc) ==
    IF i > Len(p) THEN acc
    ELSE IF p[i] = << >> \/ p[i] = NAME_DOT THEN Normalize(p, i + 1, acc)
    ELSE IF p[i] = NAME_DOTDOT THEN Normalize(p, i + 1, parent_path(acc))
    ELSE Normalize(p, i + 1, Append(acc, p[i]))

IsPrefix(a, b) == Len(a) <= Len(b) /\ SubSeq(b, 1, Len(a)) = a

-----------------------------------------------------------------------------
(* The host filesystem.  fsys.dirs is the set of directories and fsys.files *)
(* maps each regular file to its size; both are keyed by absolute paths     *)
(* without "." or "..".                                                     *)

\* the kernel's path lookup (stat): walks the elements from "/"
RECURSIVE Walk(_, _, _, _)
Walk(fs, p, i, cur) ==
    IF i > Len(p) THEN [found |-> TRUE, path |-> cur]
    ELSE IF cur \notin fs.dirs THEN [found |-> FALSE, path |-> << >>]
    ELSE IF p[i] = << >> \/ p[i] = NAME_DOT THEN Walk(fs, p, i + 1, cur)
    ELSE IF p[i] = NAME_DOTDOT THEN Walk(fs, p, i + 1, parent_path(cur))
    ELSE IF Append(cur, p[i]) \in fs.dirs \cup DOMAIN fs.files
         THEN Walk(fs, p, i + 1, Append(cur, p[i]))
    ELSE [found |-> FALSE, path |-> << >>]

stat(fs, p) == Walk(fs, p, 1, << >>)

\* std::filesystem::exists / is_directory / is_regular_file
fs_exists(fs, p) == stat(fs, p).found
fs_is_directory(fs, p) ==
    LET IsDir(st) == st.found /\ st.path \in fs.dirs IN IsDir(stat(fs, p))
fs_is_file(fs, p) ==
    LET IsFile(st) == st.found /\ st.path \in DOMAIN fs.files IN IsFile(stat(fs, p))

NameLeq(a, b) ==
    \/ IsPrefix(a, b)
    \/ \E k \in 1..Len(a) : /\ k <= Len(b)
                            /\ SubSeq(a, 1, k - 1) = SubSeq(b, 1, k - 1)
                            /\ a[k] < b[k]

RECURSIVE SortNames(_)
SortNames(S) ==
    IF S = {} THEN << >>
    ELSE LET m == CHOOSE x \in S : \A y \in S : NameLeq(x, y)
         IN  << m >> \o SortNames(S \ {m})

\* the names std::filesystem::directory_iterator(p) yields, in the order of
\* the enumeration (sorted here), for a directory p
directory_iterator(fs, p) ==
    LET d == stat(fs, p).path
    IN  SortNames({ q[Len(q)] : q \in { r \in fs.dirs \cup DOMAIN fs.files :
                                          r # << >> /\ parent_path(r) = d } })

-----------------------------------------------------------------------------
(* FCB names: 11 bytes, name_blank_padded (1..8) then ext_blank_padded (9..11) *)

FAT_RO == 1
FAT_VOLUME == 8
FAT_DIRECTORY == 16
FAT_ARCHIVE == 32
FAT_ERROR_ATTR == 255

Blanks(n) == [i \in 1..n |-> 32]

\* s cut to at most n characters
Take(s, n) == IF Len(s) <= n THEN s ELSE SubSeq(s, 1, n)

\* the longest prefix of s from index i on that holds no '.'
RECURSIVE UntilDot(_, _)
UntilDot(s, i) ==
    IF i > Len(s) \/ s[i] = 46 THEN << >> ELSE << s[i] >> \o UntilDot(s, i + 1)

\* short_name_to_fcb
short_name_to_fcb(short_name) ==
    LET n     == Len(short_name)
        upper(t) == [i \in 1..Len(t) |-> ascii_to_upper(t[i])]
        Fill(dots, base, ext) ==
            [i \in 1..dots |-> 46] \o upper(base) \o Blanks(8 - dots - Len(base))
            \o upper(ext) \o Blanks(3 - Len(ext))
        \* "skip the dot": the extension starts after the dot the iterator
        \* stands on
        Ext(dots, base, rest) ==
            Fill(dots, base,
                 Take(UntilDot(short_name, IF rest < n THEN rest + 2 ELSE n + 1), 3))
        \* "move to dot": the iterator stands after the copied characters
        Base(dots, base) ==
            Ext(dots, base,
                dots + Len(base) + Len(UntilDot(short_name, dots + Len(base) + 1)))
        \* a name of up to two dots fills the field at once (i == 2 breaks only
        \* the first loop; the second copies until the next dot or 8 bytes)
        Dots(dots) == Base(dots, Take(UntilDot(short_name, dots + 1), 8 - dots))
    IN  Dots(IF n >= 2 /\ short_name[1] = 46 /\ short_name[2] = 46 THEN 2
             ELSE IF n >= 1 /\ short_name[1] = 46 THEN 1 ELSE 0)

\* the characters sanitize_short_name copies unchanged
allowed_special == {33, 35, 36, 37, 38, 39, 40, 41, 45, 64, 94, 95, 96, 123, 125, 126}

\* in.find_last_not_of(' ') as a 1-based index; npos is larger than any index
find_last_not_of_space(in) ==
    IF \E k \in 1..Len(in) : in[k] # 32
    THEN CHOOSE k \in 1..Len(in) : in[k] # 32 /\ \A j \in (k + 1)..Len(in) : in[j] = 32
    ELSE Len(in) + 1

RECURSIVE sanitize_loop(_, _, _, _, _)
sanitize_loop(in, idx, out, shortened, buf_size) ==
    IF idx > Len(in) THEN [out |-> out, shortened |-> shortened]
    ELSE IF Len(out) = buf_size THEN [out |-> out, shortened |-> TRUE]
    ELSE LET ch == in[idx] IN
         IF (ch >= 65 /\ ch <= 90) \/ (ch >= 48 /\ ch <= 57) \/ ch \in allowed_special
         THEN sanitize_loop(in, idx + 1, Append(out, ch), shortened, buf_size)
         ELSE IF ch >= 97 /\ ch <= 122
         THEN sanitize_loop(in, idx + 1, Append(out, ch - 32), shortened, buf_size)
         ELSE IF ch = 32 /\ idx < find_last_not_of_space(in)
         THEN sanitize_loop(in, idx + 1, Append(out, ch), shortened, buf_size)
         ELSE sanitize_loop(in, idx + 1, out, TRUE, buf_size)

\* sanitize_short_name: the buffer (blank padded), the length and "shortened"
sanitize_short_name(in, buf_size) ==
    LET Pad(r) == [buf |-> r.out \o Blanks(buf_size - Len(r.out)),
                   len |-> Len(r.out), shortened |-> r.shortened]
    IN  Pad(sanitize_loop(in, 1, << >>, FALSE, buf_size))

\* std::to_chars of a positive counter
RECURSIVE to_chars(_)
to_chars(n) == IF n < 10 THEN << 48 + n >> ELSE to_chars(n \div 10) \o << 48 + (n % 10) >>

\* one pass of the "add suffix number" loop of file_name_to_83: the name in
\* the buffer after ~counter was written.  base_len is cut when the suffix
\* would not fit; the lengths of the counters only grow, so the cut made for
\* a counter is the one the cuts for the counters before it lead to, and the
\* bytes written cover those written for the counters before it
suffix_name(fcb, base_len, counter) ==
    LET Put(bl, tail) ==
            [i \in 1..11 |-> IF i > bl /\ i <= bl + Len(tail) THEN tail[i - bl] ELSE fcb[i]]
        Cut(digits) ==
            Put(IF base_len + Len(digits) > 7 THEN 7 - Len(digits) ELSE base_len,
                << 126 >> \o digits)
    IN  Cut(to_chars(counter))

\* the "add suffix number" loop of file_name_to_83, for (counter; counter <
\* 9999; ++counter): it ends at the first counter whose name is inserted, and
\* fails after the pass for 9998
suffix_loop(fcb, base_len, counter, used) ==
    IF \E n \in counter..9998 : suffix_name(fcb, base_len, n) \notin used
    THEN LET Accept(name) == [ok |-> TRUE, fcb |-> name, used |-> used \cup {name}]
         IN  Accept(suffix_name(fcb, base_len,
                 CHOOSE n \in counter..9998 :
                     /\ suffix_name(fcb, base_len, n) \notin used
                     /\ \A m \in counter..(n - 1) : suffix_name(fcb, base_len, m) \in used))
    ELSE [ok |-> FALSE, fcb |-> suffix_name(fcb, base_len, 9998), used |-> used]

\* position of the last '.' of s, 0 when there is none
find_last_of_dot(s) ==
    IF \E k \in 1..Len(s) : s[k] = 46
    THEN CHOOSE k \in 1..Len(s) : s[k] = 46 /\ \A j \in (k + 1)..Len(s) : s[j] # 46
    ELSE 0

\* file_name_to_83: the FCB name given to long_name and the names used so far
file_name_to_83(long_name, used_names) ==
    LET dotPos == find_last_of_dot(long_name)
        Name(b, e) ==
            IF ~b.shortened /\ ~e.shortened /\ (b.buf \o e.buf) \notin used_names
            THEN [ok |-> TRUE, fcb |-> b.buf \o e.buf,
                  used |-> used_names \cup {b.buf \o e.buf}]
            ELSE suffix_loop(b.buf \o e.buf, b.len, 1, used_names)
    IN  Name(sanitize_short_name(IF dotPos = 0 THEN long_name
                                 ELSE Bytes(long_name, 1, dotPos - 1), 8),
             sanitize_short_name(IF dotPos = 0 THEN << >>
                                 ELSE Bytes(long_name, dotPos + 1, Len(long_name)), 3))

-----------------------------------------------------------------------------
(* Drive: handle table, directory listings, path translation (fs.cpp) *)

MAX_HANDLE_COUNT == 65535
LISTING_MAX_AGE == 3600
time_to_fat_mtime == 1512183939   \* time_to_fat of 2025-01-02 03:04:06

\* the root of the shared drive: "/s/c"
root == << << 115 >>, << 99 >> >>

\* Drive::is_on_fat: whether the root is on a FAT filesystem; the filesystem
\* then has the DOS attributes of its files (fs.fat), which
\* FAT_IOCTL_GET_ATTRIBUTES reads
is_on_fat(fs) == "fat" \in DOMAIN fs

\* a value-initialized Item, as items.resize() makes it
EmptyItem == [path |-> << >>, last_used_time |-> 0,
              directory_list |-> << >>, fcb_names |-> {}]

\* a DosFileProperties nobody filled in
NoProperties == [fcb_name |-> Blanks(11), size |-> 0, time_date |-> 0,
                 attrs |-> 0, server_name |-> << >>]

\* the last element of p that is not empty
RECURSIVE LastNonEmpty(_)
LastNonEmpty(p) ==
    IF p = << >> THEN << >>
    ELSE IF p[Len(p)] # << >> THEN p[Len(p)] ELSE LastNonEmpty(parent_path(p))

\* get_path_dos_properties: the attribute byte returned and the properties
\* filled in.  A file that is not on FAT gets the attribute ARCHIVE, a file
\* on FAT the attributes the ioctl reads (open and ioctl succeed)
get_path_dos_properties(fs, path) ==
    LET File(st, fcb, attr) ==
            [attrs |-> attr,
             props |-> [fcb_name |-> fcb, size |-> fs.files[st.path],
                        time_date |-> time_to_fat_mtime,
                        attrs |-> attr, server_name |-> << >>]]
        Props(st, fcb) ==
            IF ~st.found THEN [attrs |-> FAT_ERROR_ATTR, props |-> NoProperties]
            ELSE IF st.path \in fs.dirs
            THEN [attrs |-> FAT_DIRECTORY,
                  props |-> [fcb_name |-> fcb, size |-> 0, time_date |-> time_to_fat_mtime,
                             attrs |-> FAT_DIRECTORY, server_name |-> << >>]]
            ELSE File(st, fcb, IF is_on_fat(fs) THEN fs.fat[st.path] ELSE FAT_ARCHIVE)
    IN  Props(stat(fs, path), short_name_to_fcb(LastNonEmpty(path)))

\* a scan that finds no slot with the path and no free slot
get_handle_scan_miss(its, server_path, t, h, first_free, oldest) ==
    [found |-> FALSE, handle |-> 0, items |-> its, first_free |-> Len(its), oldest |-> 0]

\* a get_handle loop that keeps every listing, whatever its age
RECURSIVE get_handle_scan_keep(_, _, _, _, _, _)
get_handle_scan_keep(its, server_path, t, h, first_free, oldest) ==
    IF h >= Len(its)
    THEN [found |-> FALSE, handle |-> 0, items |-> its,
          first_free |-> first_free, oldest |-> oldest]
    ELSE LET cur == its[h + 1] IN
         IF cur.path = server_path
         THEN [found |-> TRUE, handle |-> h,
               items |-> [its EXCEPT ![h + 1].last_used_time = t],
               first_free |-> first_free, oldest |-> oldest]
         ELSE LET ff   == IF first_free = Len(its) /\ cur.path = << >>
                          THEN h ELSE first_free
                  old  == IF first_free = Len(its) /\ cur.path # << >>
                             /\ its[oldest + 1].last_used_time > cur.last_used_time
                          THEN h ELSE oldest
              IN  get_handle_scan_keep(its, server_path, t, h + 1, ff, old)

\* a get_handle that replaces the first slot of a full table, whatever its age
get_handle_in_first(its, server_path, t, max_handle_count) ==
    LET holding == { h \in 0..(Len(its) - 1) : its[h + 1].path = server_path }
        Install(h, table) ==
            [handle |-> h,
             items |-> [table EXCEPT ![h + 1] = [EmptyItem EXCEPT !.path = server_path,
                                                                  !.last_used_time = t]]]
    IN  IF holding # {}
        THEN [handle |-> CHOOSE h \in holding : TRUE,
              items |-> [its EXCEPT ![(CHOOSE h \in holding : TRUE) + 1].last_used_time = t]]
        ELSE IF Len(its) < max_handle_count THEN Install(Len(its), Append(its, EmptyItem))
        ELSE Install(0, its)

\* a get_handle that allocates a new slot on every call
get_handle_in_grow(its, server_path, t, max_handle_count) ==
    [handle |-> Len(its),
     items |-> Append(its, [EmptyItem EXCEPT !.path = server_path, !.last_used_time = t])]

\* the loop of get_handle over the slots h (0-based) .. size-1
RECURSIVE get_handle_scan(_, _, _, _, _, _)
get_handle_scan(its, server_path, t, h, first_free, oldest) ==
    IF h >= Len(its)
    THEN [found |-> FALSE, handle |-> 0, items |-> its,
          first_free |-> first_free, oldest |-> oldest]
    ELSE LET cur == its[h + 1] IN
         IF cur.path = server_path
         THEN [found |-> TRUE, handle |-> h,
               items |-> [its EXCEPT ![h + 1].last_used_time = t],
               first_free |-> first_free, oldest |-> oldest]
         ELSE LET its1 == IF (t - cur.last_used_time) > LISTING_MAX_AGE
                             /\ cur.directory_list # << >>
                          THEN [its EXCEPT ![h + 1].directory_list = << >>]
                          ELSE its
                  ff   == IF first_free = Len(its) /\ cur.path = << >>
                          THEN h ELSE first_free
                  old  == IF first_free = Len(its) /\ cur.path # << >>
                             /\ its[oldest + 1].last_used_time > cur.last_used_time
                          THEN h ELSE oldest
              IN  get_handle_scan(its1, server_path, t, h + 1, ff, old)

\* Drive::get_handle for a table of at most max_handle_count slots: the handle
\* of server_path and the table afterwards
get_handle_in(its, server_path, t, max_handle_count) ==
    LET Install(h, table) ==
            [handle |-> h,
             items |-> [table EXCEPT ![h + 1].path = server_path,
                                     ![h + 1].last_used_time = t]]
        Scanned(sc) ==
            IF sc.found THEN [handle |-> sc.handle, items |-> sc.items]
            ELSE IF sc.first_free = Len(its)
            THEN IF sc.first_free < max_handle_count
                 THEN Install(sc.first_free, Append(sc.items, EmptyItem))
                 ELSE Install(sc.oldest,
                              [sc.items EXCEPT ![sc.oldest + 1].path = << >>,
                                               ![sc.oldest + 1].directory_list = << >>])
            ELSE Install(sc.first_free, sc.items)
    IN  Scanned(get_handle_scan(its, server_path, t, 0, Len(its), 0))

\* Drive::get_handle
get_handle(its, server_path, t) == get_handle_in(its, server_path, t, MAX_HANDLE_COUNT)

\* the synthesized "." and ".." entries of a listing of path
dot_entries(fs, path, cv) ==
    [k \in 1..2 |->
        LET name == IF k = 1 THEN NAME_DOT ELSE NAME_DOTDOT
            pr   == get_path_dos_properties(fs, Append(path, name)).props
        IN  [pr EXCEPT !.fcb_name = short_name_to_fcb(name),
                       !.server_name = IF cv # "OFF" THEN name ELSE << >>]]

\* the loop of create_directory_list over the directory entries names[k..]
RECURSIVE directory_list_loop(_, _, _, _, _, _, _)
directory_list_loop(fs, path, cv, names, k, list, used) ==
    LET Step(list1, pr, n83) ==
            directory_list_loop(fs, path, cv, names, k + 1,
                                Append(list1,
                                       IF cv # "OFF"
                                       THEN [pr EXCEPT !.fcb_name = n83.fcb,
                                                       !.server_name = names[k]]
                                       ELSE pr),
                                IF cv # "OFF" THEN n83.used ELSE used)
    IN  IF k > Len(names) THEN [list |-> list, used |-> used]
        ELSE IF list # << >> /\ Len(list) = 65535 THEN [list |-> list, used |-> used]
        ELSE Step(IF list = << >> THEN dot_entries(fs, path, cv) ELSE list,
                  get_path_dos_properties(fs, Append(path, names[k])).props,
                  file_name_to_83(names[k], used))

\* a create_directory_list that forgets the names it has given
create_directory_list_forget(item, fs, cv, t) ==
    LET Filled(r) ==
            [item |-> [item EXCEPT !.directory_list = r.list, !.fcb_names = {},
                                   !.last_used_time = t],
             count |-> Len(r.list)]
    IN  IF ~fs_is_directory(fs, item.path)
        THEN [item |-> [item EXCEPT !.directory_list = << >>, !.fcb_names = {}],
              count |-> -1]
        ELSE Filled(directory_list_loop(fs, item.path, cv,
                                        directory_iterator(fs, item.path), 1, << >>, {}))

\* Drive::Item::create_directory_list: the item afterwards and the count (-1 on error)
create_directory_list(item, fs, cv, t) ==
    LET Filled(r) ==
            [item |-> [item EXCEPT !.directory_list = r.list, !.fcb_names = r.used,
                                   !.last_used_time = t],
             count |-> Len(r.list)]
    IN  IF ~fs_is_directory(fs, item.path)
        THEN [item |-> [item EXCEPT !.directory_list = << >>, !.fcb_names = {}],
              count |-> -1]
        ELSE Filled(directory_list_loop(fs, item.path, cv,
                                        directory_iterator(fs, item.path), 1, << >>, {}))

\* Drive::get_server_name: the server name of the entry of items[handle] whose
\* FCB name is fcb_name (empty when there is none), and the table afterwards
get_server_name(gh, fs, cv, t, fcb_name, create) ==
    LET item == gh.items[gh.handle + 1]
        Pick(item1, hits) ==
            [items |-> [gh.items EXCEPT ![gh.handle + 1] = item1],
             name  |-> IF hits = {} THEN << >>
                       ELSE item1.directory_list[CHOOSE k \in hits :
                                                   \A j \in hits : k <= j].server_name]
        Search(item1) ==
            Pick(item1, { k \in 1..Len(item1.directory_list) :
                            item1.directory_list[k].fcb_name = fcb_name })
    IN  Search(IF create \/ item.directory_list = << >>
               THEN create_directory_list(item, fs, cv, t).item ELSE item)

\* the loop of create_server_path (name conversion RAM) at element k of client_path
RECURSIVE create_server_path_loop(_, _, _, _, _, _, _, _)
create_server_path_loop(its, fs, cv, t, client_path, create, k, server_path) ==
    LET Named(sn) ==
            IF sn.name = << >>
            THEN IF k = Len(client_path)
                 THEN [items |-> sn.items, path |-> Append(server_path, client_path[k]),
                       exist |-> FALSE, threw |-> FALSE]
                 ELSE [items |-> sn.items, path |-> server_path,
                       exist |-> FALSE, threw |-> TRUE]
            ELSE IF k = Len(client_path)
                 THEN [items |-> sn.items, path |-> Append(server_path, sn.name),
                       exist |-> TRUE, threw |-> FALSE]
                 ELSE create_server_path_loop(sn.items, fs, cv, t, client_path, create,
                                              k + 1, Append(server_path, sn.name))
    IN  Named(get_server_name(get_handle(its, server_path, t), fs, cv, t,
                              short_name_to_fcb(client_path[k]), create))

\* a create_server_path that joins the client's names to the root whatever
\* the name conversion is
create_server_path_off(its, fs, cv, t, client_path, create) ==
    IF client_path = << >>
    THEN [items |-> its, path |-> root, exist |-> TRUE, threw |-> FALSE]
    ELSE [items |-> its, path |-> root \o client_path,
          exist |-> fs_exists(fs, root \o client_path), threw |-> FALSE]

\* Drive::create_server_path: the server path, whether it exists, whether
\* std::runtime_error was thrown, and the handle table afterwards
create_server_path(its, fs, cv, t, client_path, create) ==
    IF client_path = << >>
    THEN [items |-> its, path |-> root, exist |-> TRUE, threw |-> FALSE]
    ELSE IF cv = "OFF"
    THEN [items |-> its, path |-> root \o client_path,
          exist |-> fs_exists(fs, root \o client_path), threw |-> FALSE]
    ELSE create_server_path_loop(its, fs, cv, t, client_path, create, 1, root)

-----------------------------------------------------------------------------
(* The filesystem calls of fs.cpp (anonymous namespace)                     *)

\* p without its trailing empty elements: the name the kernel acts on
RECURSIVE StripTrailing(_)
StripTrailing(p) ==
    IF p # << >> /\ p[Len(p)] = << >> THEN StripTrailing(parent_path(p)) ELSE p

IsRealName(n) == n # << >> /\ n # NAME_DOT /\ n # NAME_DOTDOT

\* make_dir(dir): std::filesystem::create_directory, throwing when it returns
\* false or fails
make_dir(fs, dir) ==
    LET Create(t, pa) ==
            IF ~fs_exists(fs, dir) /\ t # << >> /\ IsRealName(filename(t))
               /\ pa.found /\ pa.path \in fs.dirs
            THEN [threw |-> FALSE,
                  fsys |-> [fs EXCEPT !.dirs = @ \cup {Append(pa.path, filename(t))}]]
            ELSE [threw |-> TRUE, fsys |-> fs]
        Stripped(t) == Create(t, stat(fs, parent_path(t)))
    IN  Stripped(StripTrailing(dir))

\* delete_dir(dir): exists, is_directory, std::filesystem::remove (which fails
\* on a directory that is not empty, on "." and on "..")
delete_dir(fs, dir) ==
    LET Remove(t, d) ==
            IF fs_is_directory(fs, dir) /\ t # << >> /\ IsRealName(filename(t))
               /\ directory_iterator(fs, dir) = << >>
            THEN [threw |-> FALSE, fsys |-> [fs EXCEPT !.dirs = @ \ {d}]]
            ELSE [threw |-> TRUE, fsys |-> fs]
    IN  Remove(StripTrailing(dir), stat(fs, dir).path)

\* delete_file(file): throws FilesystemError(FILE_NOT_FOUND) for a missing
\* path and for a directory
delete_file(fs, file) ==
    IF ~fs_is_file(fs, file)
    THEN [threw |-> TRUE, fsys |-> fs]
    ELSE [threw |-> FALSE,
          fsys |-> [fs EXCEPT !.files =
                      [q \in (DOMAIN fs.files) \ {stat(fs, file).path} |-> fs.files[q]]]]

\* rename_file(old_name, new_name): rename(2), throwing when it fails.  The
\* old name has to exist and the parent of the new one to be a directory,
\* neither may end in "." or ".."; a directory goes onto nothing or onto an
\* empty directory and never below itself, a file onto nothing or onto a file
rename_file(fs, old_name, new_name) ==
    LET Fail == [threw |-> TRUE, fsys |-> fs]
        Moved(q, from, to) ==
            IF IsPrefix(from, q) THEN to \o SubSeq(q, Len(from) + 1, Len(q)) ELSE q
        Kept(from, to) == { q \in DOMAIN fs.files : q # to }
        Origin(q, from, to) == CHOOSE r \in Kept(from, to) : Moved(r, from, to) = q
        Tree(from, to) ==
            [fs EXCEPT !.dirs = { Moved(q, from, to) : q \in fs.dirs \ {to} },
                       !.files = [q \in { Moved(r, from, to) : r \in Kept(from, to) } |->
                                    fs.files[Origin(q, from, to)]]]
        Move(from, to) ==
            [threw |-> FALSE,
             fsys |-> IF is_on_fat(fs)
                      THEN [Tree(from, to) EXCEPT !.fat =
                              [q \in { Moved(r, from, to) : r \in Kept(from, to) } |->
                                 fs.fat[Origin(q, from, to)]]]
                      ELSE Tree(from, to)]
        OnTo(from, to) ==
            IF from = to THEN [threw |-> FALSE, fsys |-> fs]
            ELSE IF from \in fs.dirs
            THEN IF IsPrefix(from, to) \/ to \in DOMAIN fs.files
                    \/ (to \in fs.dirs /\ \E q \in fs.dirs \cup DOMAIN fs.files :
                                             q # to /\ IsPrefix(to, q))
                 THEN Fail ELSE Move(from, to)
            ELSE IF to \in fs.dirs \/ new_name # StripTrailing(new_name)
                 THEN Fail ELSE Move(from, to)
        Named(o, n, so, pa) ==
            IF ~so.found \/ o = << >> \/ ~IsRealName(filename(o))
               \/ n = << >> \/ ~IsRealName(filename(n))
               \/ ~pa.found \/ pa.path \notin fs.dirs
            THEN Fail
            ELSE OnTo(so.path, Append(pa.path, filename(n)))
        Stripped(o, n) == Named(o, n, stat(fs, old_name), stat(fs, parent_path(n)))
    IN  Stripped(StripTrailing(old_name), StripTrailing(new_name))

\* a create_or_truncate_file that leaves the content of an existing file
create_or_truncate_file_keep(fs, path) ==
    LET Open(pa, st) ==
            IF ~IsRealName(filename(path)) \/ ~pa.found \/ pa.path \notin fs.dirs
               \/ (st.found /\ st.path \in fs.dirs)
            THEN [threw |-> TRUE, fsys |-> fs]
            ELSE IF st.found THEN [threw |-> FALSE, fsys |-> fs]
            ELSE [threw |-> FALSE,
                  fsys |-> [fs EXCEPT !.files = (Append(pa.path, filename(path)) :> 0) @@ @]]
    IN  Open(stat(fs, parent_path(path)), stat(fs, path))

\* create_or_truncate_file: fopen(path, "wb") makes the file or cuts it to
\* 0 bytes; it fails for a directory and below a missing directory
create_or_truncate_file(fs, path) ==
    LET Open(pa, st) ==
            IF ~IsRealName(filename(path)) \/ ~pa.found \/ pa.path \notin fs.dirs
               \/ (st.found /\ st.path \in fs.dirs)
            THEN [threw |-> TRUE, fsys |-> fs]
            ELSE [threw |-> FALSE,
                  fsys |-> [fs EXCEPT !.files = (Append(pa.path, filename(path)) :> 0) @@ @]]
    IN  Open(stat(fs, parent_path(path)), stat(fs, path))

\* match_fcb_name_to_mask
match_fcb_name_to_mask(mask, name) ==
    \A i \in 1..11 : ascii_to_upper(name[i]) = ascii_to_upper(mask[i]) \/ mask[i] = 63

\* path.string(): the elements of an absolute path joined by '/'
RECURSIVE PathString(_)
PathString(p) ==
    IF p = << >> THEN << >> ELSE PathString(parent_path(p)) \o << 47 >> \o p[Len(p)]

-----------------------------------------------------------------------------
(* Drive operations.  Each yields the handle table and filesystem it leaves *)
(* and the exception it ends with: "none", "runtime_error" (this includes   *)
(* std::filesystem::filesystem_error) or "FilesystemError" with a DOS code. *)

Outcome(exc, code, its, fs) == [exc |-> exc, code |-> code, items |-> its, fsys |-> fs]

\* Drive::make_dir from the translated path sp on: the existence check,
\* netmount_srv::make_dir, and the second create_server_path that recreates
\* the listing
make_dir_at(sp, fs, cv, t, client_path) ==
    LET Made(mk, re) ==
            IF sp.threw \/ sp.exist \/ mk.threw
            THEN Outcome("runtime_error", 0, sp.items, fs)
            ELSE Outcome(IF re.threw THEN "runtime_error" ELSE "none", 0,
                         re.items, mk.fsys)
    IN  Made(make_dir(fs, sp.path),
             create_server_path(sp.items, make_dir(fs, sp.path).fsys, cv, t,
                                client_path, TRUE))

\* Drive::delete_dir from the translated path sp on
delete_dir_at(sp, fs, cv, t, client_path) ==
    LET Removed(rm, re) ==
            IF sp.threw \/ ~sp.exist \/ rm.threw
            THEN Outcome("runtime_error", 0, sp.items, fs)
            ELSE Outcome(IF re.threw THEN "runtime_error" ELSE "none", 0,
                         re.items, rm.fsys)
    IN  Removed(delete_dir(fs, sp.path),
                create_server_path(sp.items, delete_dir(fs, sp.path).fsys, cv, t,
                                   client_path, TRUE))

\* Drive::make_dir
drive_make_dir(its, fs, cv, t, client_path) ==
    make_dir_at(create_server_path(its, fs, cv, t, client_path, FALSE),
                fs, cv, t, client_path)

\* Drive::delete_dir
drive_delete_dir(its, fs, cv, t, client_path) ==
    delete_dir_at(create_server_path(its, fs, cv, t, client_path, FALSE),
                  fs, cv, t, client_path)

\* Drive::rename_file: both paths are translated, the file renamed, and the
\* listing of the new path's directory recreated
drive_rename_file(its, fs, cv, t, old_client_path, new_client_path) ==
    LET Renamed(s2, rn, re) ==
            IF rn.threw THEN Outcome("runtime_error", 0, s2.items, fs)
            ELSE Outcome(IF re.threw THEN "runtime_error" ELSE "none", 0,
                         re.items, rn.fsys)
        New(s1, s2) ==
            IF s2.threw THEN Outcome("runtime_error", 0, s2.items, fs)
            ELSE Renamed(s2, rename_file(fs, s1.path, s2.path),
                         create_server_path(s2.items,
                                            rename_file(fs, s1.path, s2.path).fsys,
                                            cv, t, new_client_path, TRUE))
        Old(s1) ==
            IF s1.threw THEN Outcome("runtime_error", 0, s1.items, fs)
            ELSE New(s1, create_server_path(s1.items, fs, cv, t, new_client_path, FALSE))
    IN  Old(create_server_path(its, fs, cv, t, old_client_path, FALSE))

\* the sweep of delete_files over a cached listing (name conversion RAM)
RECURSIVE delete_sweep_list(_, _, _, _, _)
delete_sweep_list(fs, directory, list, k, filfcb) ==
    IF k > Len(list) THEN fs
    ELSE LET e  == list[k]
             rm == delete_file(fs, Append(directory, e.server_name))
         IN  IF (e.attrs \div FAT_DIRECTORY) % 2 = 0
                /\ match_fcb_name_to_mask(filfcb, e.fcb_name)
             THEN delete_sweep_list(rm.fsys, directory, list, k + 1, filfcb)
             ELSE delete_sweep_list(fs, directory, list, k + 1, filfcb)

\* the sweep of delete_files over the directory itself (name conversion OFF):
\* the mask is matched against short_name_to_fcb of the entry's whole path
RECURSIVE delete_sweep_dir(_, _, _, _, _)
delete_sweep_dir(fs, directory, names, k, filfcb) ==
    IF k > Len(names) THEN fs
    ELSE LET q == Append(directory, names[k])
         IN  IF ~fs_is_directory(fs, q)
                /\ match_fcb_name_to_mask(filfcb, short_name_to_fcb(PathString(q)))
             THEN delete_sweep_dir(delete_file(fs, q).fsys, directory, names, k + 1, filfcb)
             ELSE delete_sweep_dir(fs, directory, names, k + 1, filfcb)

\* Drive::delete_files
drive_delete_files(its, fs, cv, t, client_pattern) ==
    LET Listed(directory, filfcb, gh) ==
            Outcome("none", 0, gh.items,
                    delete_sweep_list(fs, directory,
                                      gh.items[gh.handle + 1].directory_list, 1, filfcb))
        Sweep(sp, directory, filfcb, str) ==
            IF \A k \in 1..Len(str) : str[k] # 63
            THEN Outcome("FilesystemError", DOS_EXTERR_FILE_NOT_FOUND, sp.items, fs)
            ELSE IF cv = "OFF"
            THEN IF ~fs_is_directory(fs, directory)
                 THEN Outcome("runtime_error", 0, sp.items, fs)
                 ELSE Outcome("none", 0, sp.items,
                              delete_sweep_dir(fs, directory,
                                               directory_iterator(fs, directory),
                                               1, filfcb))
            ELSE Listed(directory, filfcb, get_handle(sp.items, directory, t))
        Single(sp, rm) ==
            IF rm.threw
            THEN Outcome("FilesystemError", DOS_EXTERR_FILE_NOT_FOUND, sp.items, fs)
            ELSE Outcome("none", 0, sp.items, rm.fsys)
        Translated(sp, at) ==
            IF sp.threw THEN Outcome("runtime_error", 0, sp.items, fs)
            ELSE IF at % 2 = FAT_RO
            THEN Outcome("FilesystemError", DOS_EXTERR_ACCESS_DENIED, sp.items, fs)
            ELSE IF sp.exist THEN Single(sp, delete_file(fs, sp.path))
            ELSE Sweep(sp, parent_path(sp.path),
                       short_name_to_fcb(filename(client_pattern)), PathString(sp.path))
        Path(sp) == Translated(sp, get_path_dos_properties(fs, sp.path).attrs)
    IN  Path(create_server_path(its, fs, cv, t, client_pattern, FALSE))

\* Drive::get_item succeeds
\* a get_item that knows the first slot only
valid_handle_first(its, handle) == handle = 0 /\ Len(its) > 0 /\ its[1].path # << >>

valid_handle(its, handle) == handle < Len(its) /\ its[handle + 1].path # << >>

\* byte k (0-based) of every file's content
FileByte(k) == k % 256

\* Drive::read_file: the bytes fread stores at buffer; a directory opens but
\* reads nothing
drive_read_file(its, fs, t, handle, offset, len) ==
    LET Read(its1, res) ==
            [threw |-> FALSE, items |-> its1,
             data |-> [k \in 1..res |-> FileByte(offset + k - 1)]]
        Sized(fname, its1, size) ==
            IF ~fs_exists(fs, fname) THEN [threw |-> TRUE, items |-> its1, data |-> << >>]
            ELSE Read(its1, IF offset >= size THEN 0
                            ELSE IF size - offset < len THEN size - offset ELSE len)
        Opened(fname) ==
            Sized(fname, [its EXCEPT ![handle + 1].last_used_time = t],
                  IF fs_is_file(fs, fname) THEN fs.files[stat(fs, fname).path] ELSE 0)
    IN  IF ~valid_handle(its, handle) THEN [threw |-> TRUE, items |-> its, data |-> << >>]
        ELSE Opened(its[handle + 1].path)

\* Drive::write_file: len 0 truncates or extends the file to offset, any
\* other len writes len bytes at offset; truncate and fopen("r+b") fail for
\* a directory and for a path that is gone
drive_write_file(its, fs, t, handle, offset, len) ==
    LET Written(fname, its1, size) ==
            [threw |-> FALSE, items |-> its1, res |-> len,
             fsys |-> [fs EXCEPT !.files[stat(fs, fname).path] =
                                    IF len = 0 THEN offset
                                    ELSE IF offset + len > size THEN offset + len ELSE size]]
        Opened(fname, its1) ==
            IF ~fs_is_file(fs, fname)
            THEN [threw |-> TRUE, items |-> its1, res |-> 0, fsys |-> fs]
            ELSE Written(fname, its1, fs.files[stat(fs, fname).path])
    IN  IF ~valid_handle(its, handle)
        THEN [threw |-> TRUE, items |-> its, res |-> 0, fsys |-> fs]
        ELSE Opened(its[handle + 1].path, [its EXCEPT ![handle + 1].last_used_time = t])

FAT_HIDDEN == 2
FAT_SYSTEM == 4

\* bit b (a power of two) of x
Bit(x, b) == (x \div b) % 2

\* a & b and a | b on unsigned values
RECURSIVE bit_and(_, _)
bit_and(a, b) ==
    IF a = 0 \/ b = 0 THEN 0
    ELSE (a % 2) * (b % 2) + 2 * bit_and(a \div 2, b \div 2)

bit_or(a, b) == a + b - bit_and(a, b)

FAT_NONE == 0

\* the bits kept in the extended attribute
FAT_PERSISTED == FAT_ARCHIVE + FAT_HIDDEN + FAT_RO + FAT_SYSTEM

\* get_dos_attrs_from_extended(path): getxattr fails with ENODATA when the
\* path has no user.NetMountAttrs, and with another error (thrown) when the
\* path does not exist; fs.xattr maps the paths that have the attribute to
\* its byte
get_dos_attrs_from_extended(fs, path) ==
    LET Got(st) ==
            IF ~st.found THEN [threw |-> TRUE, attrs |-> 0]
            ELSE IF st.path \notin DOMAIN fs.xattr
            THEN [threw |-> FALSE,
                  attrs |-> IF fs_is_directory(fs, path) THEN FAT_NONE ELSE FAT_ARCHIVE]
            ELSE [threw |-> FALSE, attrs |-> bit_and(fs.xattr[st.path], FAT_PERSISTED)]
    IN  Got(stat(fs, path))

\* a set_dos_attrs_to_extended that takes FAT_NONE and FAT_ARCHIVE for the
\* default of every kind of path
set_dos_attrs_to_extended_any(fs, path, attrs, permitted) ==
    LET Set(st, a) ==
            IF ~st.found \/ ~permitted THEN [threw |-> TRUE, fsys |-> fs]
            ELSE IF a = FAT_NONE \/ a = FAT_ARCHIVE
            THEN [threw |-> FALSE,
                  fsys |-> [fs EXCEPT !.xattr =
                              [q \in (DOMAIN @) \ {st.path} |-> @[q]]]]
            ELSE [threw |-> FALSE,
                  fsys |-> [fs EXCEPT !.xattr =
                              [q \in (DOMAIN @) \cup {st.path} |->
                                 IF q = st.path THEN a ELSE @[q]]]]
    IN  Set(stat(fs, path), bit_and(attrs, FAT_PERSISTED))

\* set_dos_attrs_to_extended(path, attrs): removexattr for the default of
\* the kind of path (ENODATA is not an error), setxattr of the masked byte
\* otherwise; permitted is whether the host lets the call through
set_dos_attrs_to_extended(fs, path, attrs, permitted) ==
    LET Set(st, a, default_attrs) ==
            IF ~st.found \/ ~permitted THEN [threw |-> TRUE, fsys |-> fs]
            ELSE IF default_attrs
            THEN [threw |-> FALSE,
                  fsys |-> [fs EXCEPT !.xattr =
                              [q \in (DOMAIN @) \ {st.path} |-> @[q]]]]
            ELSE [threw |-> FALSE,
                  fsys |-> [fs EXCEPT !.xattr =
                              [q \in (DOMAIN @) \cup {st.path} |->
                                 IF q = st.path THEN a ELSE @[q]]]]
        Masked(a) ==
            Set(stat(fs, path), a,
                IF a = FAT_NONE THEN fs_is_directory(fs, path)
                ELSE IF a = FAT_ARCHIVE THEN ~fs_is_directory(fs, path)
                ELSE FALSE)
    IN  Masked(bit_and(attrs, FAT_PERSISTED))

\* a search loop that lets hidden entries pass whatever attr is
RECURSIVE find_file_scan_hidden(_, _, _, _, _)
find_file_scan_hidden(dir_list, is_root_dir, tmpl, attr, n) ==
    IF n >= Len(dir_list) THEN -1
    ELSE LET item_props == dir_list[n + 1] IN
         IF \/ is_root_dir /\ item_props.fcb_name[1] = 46
            \/ ~match_fcb_name_to_mask(tmpl, item_props.fcb_name)
            \/ attr = FAT_VOLUME /\ bit_and(item_props.attrs, FAT_VOLUME) = 0
            \/ /\ attr # FAT_VOLUME
               /\ bit_or(attr, bit_and(item_props.attrs, FAT_SYSTEM + FAT_DIRECTORY)) # attr
         THEN find_file_scan_hidden(dir_list, is_root_dir, tmpl, attr, n + 1)
         ELSE n

\* the search loop of find_file from entry n (0-based) on: the index of the
\* first entry that passes the filters, -1 when there is none
RECURSIVE find_file_scan(_, _, _, _, _)
find_file_scan(dir_list, is_root_dir, tmpl, attr, n) ==
    IF n >= Len(dir_list) THEN -1
    ELSE LET item_props == dir_list[n + 1] IN
         IF \/ is_root_dir /\ item_props.fcb_name[1] = 46
            \/ ~match_fcb_name_to_mask(tmpl, item_props.fcb_name)
            \/ attr = FAT_VOLUME /\ bit_and(item_props.attrs, FAT_VOLUME) = 0
            \/ /\ attr # FAT_VOLUME
               /\ bit_or(attr, bit_and(item_props.attrs,
                                       FAT_HIDDEN + FAT_SYSTEM + FAT_DIRECTORY)) # attr
         THEN find_file_scan(dir_list, is_root_dir, tmpl, attr, n + 1)
         ELSE n

\* an end of find_file that hands back the index of the match itself
find_file_end_at_match(its, handle, nth, n) ==
    IF n < 0
    THEN [threw |-> FALSE, found |-> FALSE, nth |-> nth, props |-> NoProperties,
          items |-> its]
    ELSE [threw |-> FALSE, found |-> TRUE, nth |-> n,
          props |-> its[handle + 1].directory_list[n + 1], items |-> its]

\* the end of find_file: with a match at index n (0-based, -1 for none) nth
\* becomes n + 1 and the properties are those of the entry
find_file_end(its, handle, nth, n) ==
    IF n < 0
    THEN [threw |-> FALSE, found |-> FALSE, nth |-> nth, props |-> NoProperties,
          items |-> its]
    ELSE [threw |-> FALSE, found |-> TRUE, nth |-> n + 1,
          props |-> its[handle + 1].directory_list[n + 1], items |-> its]

\* Drive::find_file: whether an entry was found, nth and the properties
\* afterwards, whether get_item threw, and the handle table afterwards.
\* std::filesystem::equivalent reports an error for a path that is gone.
drive_find_file(its, fs, cv, t, handle, tmpl, attr, nth) ==
    LET Listed(its1, is_root_dir) ==
            find_file_end(its1, handle, nth,
                          find_file_scan(its1[handle + 1].directory_list, is_root_dir,
                                         tmpl, attr, nth))
        Scan(its1, cd, is_root_dir) ==
            IF nth = 0 \/ its1[handle + 1].directory_list = << >>
            THEN IF cd.count < 0
                 THEN find_file_end([its1 EXCEPT ![handle + 1] = cd.item], handle, nth, -1)
                 ELSE Listed([its1 EXCEPT ![handle + 1] = cd.item], is_root_dir)
            ELSE Listed(its1, is_root_dir)
        Touched(its1, path) ==
            IF ~fs_exists(fs, path) THEN find_file_end(its1, handle, nth, -1)
            ELSE Scan(its1, create_directory_list(its1[handle + 1], fs, cv, t),
                      stat(fs, path).path = stat(fs, root).path)
    IN  IF ~valid_handle(its, handle)
        THEN [threw |-> TRUE, found |-> FALSE, nth |-> nth, props |-> NoProperties,
              items |-> its]
        ELSE Touched([its EXCEPT ![handle + 1].last_used_time = t], its[handle + 1].path)

\* Drive::space_info with fs_space_info: std::filesystem::space throws for a
\* root that is gone
drive_space_info(fs) ==
    IF ~fs_exists(fs, root) THEN [threw |-> TRUE, fs_size |-> 0, free_space |-> 0]
    ELSE [threw |-> FALSE, fs_size |-> fs.capacity, free_space |-> fs.free]

-----------------------------------------------------------------------------
(* process_request (netmount-server.cpp)                                    *)

\* the drives given on the command line: C:
SharedDrives == {2}

\* what a case of the switch ends with: a reply body and ax ("reply"),
\* return -1 ("drop"), or an exception that no handler catches ("throw")
Reply(ax, data, its, fs) ==
    [kind |-> "reply", ax |-> ax, data |-> data, items |-> its, fsys |-> fs]
Drop(its, fs) ==
    [kind |-> "drop", ax |-> 0, data |-> << >>, items |-> its, fsys |-> fs]
Throw(its, fs) ==
    [kind |-> "throw", ax |-> 0, data |-> << >>, items |-> its, fsys |-> fs]

\* case INT2F_REMOVE_DIR / INT2F_MAKE_DIR
handle_make_remove_dir(function, request_data, its, fs, cv, t) ==
    LET Answer(r) ==
            Reply(IF r.exc # "none" THEN DOS_EXTERR_WRITE_FAULT ELSE DOS_EXTERR_NO_ERROR,
                  << >>, r.items, r.fsys)
    IN  IF Len(request_data) < 1 THEN Drop(its, fs)
        ELSE Answer(IF function = INT2F_MAKE_DIR
                    THEN drive_make_dir(its, fs, cv, t, create_relative_path(request_data))
                    ELSE drive_delete_dir(its, fs, cv, t,
                                          create_relative_path(request_data)))

\* Drive::get_handle_path: get_item throws for a handle that is not
\* allocated or is empty; otherwise the slot's timestamp is refreshed
drive_get_handle_path(its, t, handle) ==
    IF ~valid_handle(its, handle) THEN [threw |-> TRUE, items |-> its]
    ELSE [threw |-> FALSE, items |-> [its EXCEPT ![handle + 1].last_used_time = t]]

\* case INT2F_CLOSE_FILE: drive_proto_closef is start_cluster (2); the
\* exception of get_handle_path is caught and only logged
handle_close_file(request_data, its, fs, t) ==
    IF Len(request_data) # 2 THEN Drop(its, fs)
    ELSE Reply(DOS_EXTERR_NO_ERROR, << >>,
               drive_get_handle_path(its, t, from_little16(request_data, 1)).items, fs)

\* case INT2F_READ_FILE: drive_proto_readf is offset (4), start_cluster (2), length (2)
handle_read_file(request_data, its, fs, t) ==
    LET Answer(r) ==
            IF r.threw THEN Reply(DOS_EXTERR_ACCESS_DENIED, << >>, r.items, fs)
            ELSE Reply(DOS_EXTERR_NO_ERROR, r.data, r.items, fs)
        Read(offset, handle, len) == Answer(drive_read_file(its, fs, t, handle, offset, len))
    IN  IF Len(request_data) # 8 THEN Drop(its, fs)
        ELSE Read(from_little32(request_data, 1), from_little16(request_data, 5),
                  from_little16(request_data, 7))

\* the limit "slightly under 2 GiB" of DISK_INFO; sizes of the disk are
\* counted in KiB, so 2 GiB is 2097152 and a cluster of 32768 bytes is 32
\* a DISK_INFO that passes the sizes on as they are
clamp_2gib_not(n) == n

clamp_2gib(n) == IF n >= 2097152 THEN 2097151 ELSE n

\* case INT2F_DISK_INFO: the reply is total_clusters, bytes_per_sector,
\* available_clusters
handle_disk_info(its, fs) ==
    LET Answer(r) ==
            IF r.threw THEN Drop(its, fs)
            ELSE Reply(1, to_little16(clamp_2gib(r.fs_size) \div 32) \o to_little16(32768)
                          \o to_little16(clamp_2gib(r.free_space) \div 32), its, fs)
    IN  Answer(drive_space_info(fs))

\* case INT2F_DELETE_FILE: only FilesystemError is caught
handle_delete_file(request_data, its, fs, cv, t) ==
    LET Answer(r) ==
            IF r.exc = "runtime_error" THEN Throw(r.items, r.fsys)
            ELSE IF r.exc = "FilesystemError" THEN Reply(r.code, << >>, r.items, r.fsys)
            ELSE Reply(DOS_EXTERR_NO_ERROR, << >>, r.items, r.fsys)
    IN  IF Len(request_data) < 1 THEN Drop(its, fs)
        ELSE Answer(drive_delete_files(its, fs, cv, t, create_relative_path(request_data)))

\* a RENAME_FILE that forgets the length byte when it computes path2_len
rename_paths_long(request_data_len, path1_len) ==
    [read |-> request_data_len > path1_len,
     old  |-> [from |-> 1, len |-> path1_len],
     new  |-> [from |-> 1 + path1_len,
               len  |-> (request_data_len - path1_len) % 65536]]

\* case INT2F_RENAME_FILE: whether the paths are read, and the two slices of
\* request_data handed to create_relative_path, each by the offset of its
\* first byte and its length (an int turned into uint16_t)
rename_paths(request_data_len, path1_len) ==
    [read |-> request_data_len > path1_len,
     old  |-> [from |-> 1, len |-> path1_len],
     new  |-> [from |-> 1 + path1_len,
               len  |-> (request_data_len - (1 + path1_len)) % 65536]]

\* the bytes std::string(ptr, len) copies from request_data; behind the body
\* the receive buffer holds what earlier datagrams left there, zeroes here
Slice(request_data, s) ==
    [i \in 1..s.len |-> IF s.from + i <= Len(request_data)
                        THEN request_data[s.from + i] ELSE 0]

\* case INT2F_RENAME_FILE: only std::runtime_error is thrown and it is caught
handle_rename_file(request_data, its, fs, cv, t) ==
    LET Answer(r) ==
            Reply(IF r.exc # "none" THEN DOS_EXTERR_ACCESS_DENIED ELSE DOS_EXTERR_NO_ERROR,
                  << >>, r.items, r.fsys)
        Paths(p) ==
            IF p.read
            THEN Answer(drive_rename_file(its, fs, cv, t,
                                          create_relative_path(Slice(request_data, p.old)),
                                          create_relative_path(Slice(request_data, p.new))))
            ELSE Reply(DOS_EXTERR_FILE_NOT_FOUND, << >>, its, fs)
    IN  IF Len(request_data) < 3 THEN Drop(its, fs)
        ELSE Paths(rename_paths(Len(request_data), request_data[1]))

\* case INT2F_OPEN_FILE: the request is attrs (2), action (2), mode (2), path;
\* the reply attrs (1), name (11), date_time (4), size (4), start_cluster (2),
\* result_code (2), mode (1)
handle_open_file(request_data, its, fs, cv, t) ==
    LET stack_attr    == from_little16(request_data, 1)
        relative_path == create_relative_path(Bytes(request_data, 7, Len(request_data)))
        Answer(pr, gh) ==
            IF gh.handle = 65535 THEN Drop(gh.items, fs)
            ELSE Reply(DOS_EXTERR_NO_ERROR,
                       << pr.attrs % 256 >> \o short_name_to_fcb(filename(relative_path))
                       \o to_little32(pr.time_date) \o to_little32(pr.size)
                       \o to_little16(gh.handle) \o to_little16(0)
                       \o << stack_attr % 256 >>,
                       gh.items, fs)
        Found(sp, gp) ==
            IF gp.attrs = FAT_ERROR_ATTR
               \/ (gp.attrs \div FAT_VOLUME) % 2 = 1 \/ (gp.attrs \div FAT_DIRECTORY) % 2 = 1
            THEN Reply(DOS_EXTERR_FILE_NOT_FOUND, << >>, sp.items, fs)
            ELSE Answer(gp.props, get_handle(sp.items, sp.path, t))
        Translated(sp) ==
            IF sp.threw THEN Reply(DOS_EXTERR_FILE_NOT_FOUND, << >>, sp.items, fs)
            ELSE IF ~fs_is_directory(fs, parent_path(sp.path))
            THEN Reply(DOS_EXTERR_PATH_NOT_FOUND, << >>, sp.items, fs)
            ELSE Found(sp, get_path_dos_properties(fs, sp.path))
    IN  IF Len(request_data) <= 6 THEN Drop(its, fs)
        ELSE Translated(create_server_path(its, fs, cv, t, relative_path, FALSE))

\* the largest int32_t
INT32_MAX == 2147483647

\* int32_t offset = from_little16(hi); offset << 16: the low sixteen bits
\* move up and the value is taken modulo 2^32 into the range of int32_t
shift_left_16(offset) ==
    IF offset >= 32768 THEN (offset - 65536) * 65536 ELSE offset * 65536

\* a + b in int32_t: the sum modulo 2^32 in the range of int32_t, and whether
\* the exact sum is outside that range
add_int32(a, b) ==
    IF a > 0 /\ b > INT32_MAX - a
    THEN [value |-> (a - INT32_MAX - 1) + (b - INT32_MAX - 1), overflow |-> TRUE]
    ELSE IF a < 0 /\ b < (-INT32_MAX - 1) - a
    THEN [value |-> (a + INT32_MAX + 1) + (b + INT32_MAX + 1), overflow |-> TRUE]
    ELSE [value |-> a + b, overflow |-> FALSE]

\* a seek that keeps a positive offset from the end
zero_if_positive_keep(offset) == offset

\* if the offset is positive, zero it
zero_if_positive(offset) == IF offset > 0 THEN 0 ELSE offset

\* SEEK_FROM_END: the offset from the start for the two words of the
\* offset from the end and the file size; overflow tells that one of the
\* two additions left the range of int32_t
seek_position(offset_from_end_hi, offset_from_end_lo, fsize) ==
    LET Position(whole, sum) ==
            [position |-> IF sum.value < 0 THEN 0 ELSE sum.value,
             overflow |-> whole.overflow \/ sum.overflow]
        Whole(whole) == Position(whole, add_int32(zero_if_positive(whole.value), fsize))
    IN  Whole(add_int32(shift_left_16(offset_from_end_hi), offset_from_end_lo))

\* Drive::get_file_size: -1 when the path of the handle is gone
drive_get_file_size(its, fs, t, handle) ==
    LET Sized(gp) ==
            IF gp.attrs = FAT_ERROR_ATTR THEN [threw |-> FALSE, size |-> -1, items |-> its]
            ELSE [threw |-> FALSE, size |-> gp.props.size,
                  items |-> [its EXCEPT ![handle + 1].last_used_time = t]]
    IN  IF ~valid_handle(its, handle) THEN [threw |-> TRUE, size |-> -1, items |-> its]
        ELSE Sized(get_path_dos_properties(fs, its[handle + 1].path))

\* case INT2F_SEEK_FROM_END: drive_proto_seek_from_end is offset_from_end_hi
\* (2), offset_from_end_lo (2), start_cluster (2); the reply is position_lo
\* (2), position_hi (2)
handle_seek_from_end(request_data, its, fs, t) ==
    LET Answer(r, sk) ==
            IF r.threw \/ r.size < 0 THEN Reply(DOS_EXTERR_FILE_NOT_FOUND, << >>, r.items, fs)
            ELSE Reply(DOS_EXTERR_NO_ERROR,
                       to_little16(sk.position) \o to_little16(sk.position \div 65536),
                       r.items, fs)
        Seek(r) == Answer(r, seek_position(from_little16(request_data, 1),
                                           from_little16(request_data, 3),
                                           IF r.size < 0 THEN 0 ELSE r.size))
    IN  IF Len(request_data) # 6 THEN Drop(its, fs)
        ELSE Seek(drive_get_file_size(its, fs, t, from_little16(request_data, 5)))

\* Action codes of EXTENDED_OPEN_CREATE: the low nibble for a file that
\* exists, the high nibble for one that does not
ACTION_CODE_OPEN_IF_EXIST == 1
ACTION_CODE_REPLACE_IF_EXIST == 2
ACTION_CODE_CREATE_IF_NOT_EXIST == 16

\* action_code & IF_EXIST_MASK and action_code & IF_NOT_EXIST_MASK
if_exist(action_code) == action_code % 16
if_not_exist(action_code) == ((action_code \div 16) % 16) * 16

\* case INT2F_CREATE_FILE / INT2F_EXTENDED_OPEN_CREATE_FILE: request and
\* reply as for OPEN_FILE; result_code is CX of the extended call
handle_create_open(function, request_data, its, fs, cv, t) ==
    LET stack_attr    == from_little16(request_data, 1)
        action_code   == from_little16(request_data, 3)
        open_mode     == from_little16(request_data, 5)
        relative_path == create_relative_path(Bytes(request_data, 7, Len(request_data)))
        Failed(sp) == Reply(DOS_EXTERR_FILE_NOT_FOUND, << >>, sp.items, fs)
        Answer(pr, gh, fs1, result_code, result_open_mode) ==
            IF gh.handle = 65535 THEN Drop(gh.items, fs1)
            ELSE Reply(DOS_EXTERR_NO_ERROR,
                       << pr.attrs % 256 >> \o short_name_to_fcb(filename(relative_path))
                       \o to_little32(pr.time_date) \o to_little32(pr.size)
                       \o to_little16(gh.handle) \o to_little16(result_code)
                       \o << result_open_mode >>,
                       gh.items, fs1)
        Created(sp, ct, result_code, result_open_mode) ==
            IF ct.threw THEN Failed(sp)
            ELSE Answer(get_path_dos_properties(ct.fsys, sp.path).props,
                        get_handle(sp.items, sp.path, t), ct.fsys,
                        result_code, result_open_mode)
        Extended(sp, gp, ct) ==
            IF gp.attrs = FAT_ERROR_ATTR
            THEN IF if_not_exist(action_code) = ACTION_CODE_CREATE_IF_NOT_EXIST
                 THEN Created(sp, ct, DOS_EXT_OPEN_FILE_RESULT_CODE_CREATED, open_mode % 128)
                 ELSE Failed(sp)
            ELSE IF Bit(gp.attrs, FAT_VOLUME) = 1 \/ Bit(gp.attrs, FAT_DIRECTORY) = 1
            THEN Failed(sp)
            ELSE IF if_exist(action_code) = ACTION_CODE_OPEN_IF_EXIST
            THEN Answer(gp.props, get_handle(sp.items, sp.path, t), fs,
                        DOS_EXT_OPEN_FILE_RESULT_CODE_OPENED, open_mode % 128)
            ELSE IF if_exist(action_code) = ACTION_CODE_REPLACE_IF_EXIST
            THEN Created(sp, ct, DOS_EXT_OPEN_FILE_RESULT_CODE_TRUNCATED, open_mode % 128)
            ELSE Failed(sp)
        Translated(sp) ==
            IF sp.threw THEN Failed(sp)
            ELSE IF ~fs_is_directory(fs, parent_path(sp.path))
            THEN Reply(DOS_EXTERR_PATH_NOT_FOUND, << >>, sp.items, fs)
            ELSE IF function = INT2F_CREATE_FILE
            THEN Created(sp, create_or_truncate_file(fs, sp.path), 0, 2)
            ELSE Extended(sp, get_path_dos_properties(fs, sp.path),
                          create_or_truncate_file(fs, sp.path))
    IN  IF Len(request_data) <= 6 THEN Drop(its, fs)
        ELSE Translated(create_server_path(its, fs, cv, t, relative_path, FALSE))

\* drive_proto_find_reply: attrs (1), name (11), time (2), date (2), size (4),
\* start_cluster (2), dir_entry (2)
find_reply(properties, handle, fpos) ==
    << properties.attrs % 256 >> \o properties.fcb_name
    \o to_little32(properties.time_date) \o to_little32(properties.size)
    \o to_little16(handle) \o to_little16(fpos)

\* case INT2F_FIND_FIRST from the handle of the search directory on: handle
\* 0xFFFF or a find_file that returns false give NO_MORE_FILES
find_first_in(gh, fs, cv, t, filemaskfcb, fattr) ==
    LET Answer(ff) ==
            IF ff.threw THEN Throw(ff.items, fs)
            ELSE IF ~ff.found THEN Reply(DOS_EXTERR_NO_MORE_FILES, << >>, ff.items, fs)
            ELSE Reply(DOS_EXTERR_NO_ERROR, find_reply(ff.props, gh.handle, ff.nth),
                       ff.items, fs)
    IN  IF gh.handle = 65535 THEN Reply(DOS_EXTERR_NO_MORE_FILES, << >>, gh.items, fs)
        ELSE Answer(drive_find_file(gh.items, fs, cv, t, gh.handle, filemaskfcb, fattr, 0))

\* a FIND_FIRST that answers PATH_NOT_FOUND for a search directory that
\* does not exist
find_first_at_path_not_found(sp, fs, cv, t, filemaskfcb, fattr) ==
    IF sp.threw THEN Reply(DOS_EXTERR_NO_MORE_FILES, << >>, sp.items, fs)
    ELSE IF ~sp.exist THEN Reply(DOS_EXTERR_PATH_NOT_FOUND, << >>, sp.items, fs)
    ELSE find_first_in(get_handle(sp.items, sp.path, t), fs, cv, t, filemaskfcb, fattr)

\* case INT2F_FIND_FIRST from the translated search directory sp on: an
\* exception of create_server_path leaves handle = 0xFFFF, a directory that
\* does not exist gives NO_MORE_FILES at once
find_first_at(sp, fs, cv, t, filemaskfcb, fattr) ==
    IF sp.threw THEN Reply(DOS_EXTERR_NO_MORE_FILES, << >>, sp.items, fs)
    ELSE IF ~sp.exist THEN Reply(DOS_EXTERR_NO_MORE_FILES, << >>, sp.items, fs)
    ELSE find_first_in(get_handle(sp.items, sp.path, t), fs, cv, t, filemaskfcb, fattr)

\* case INT2F_FIND_FIRST: the request is attrs (1) and the search template
handle_find_first(request_data, its, fs, cv, t) ==
    LET search_template ==
            create_relative_path(Bytes(request_data, 2, Len(request_data)))
    IN  IF Len(request_data) <= 1 THEN Drop(its, fs)
        ELSE find_first_at(create_server_path(its, fs, cv, t,
                                              parent_path(search_template), FALSE),
                           fs, cv, t, short_name_to_fcb(filename(search_template)),
                           request_data[1])

\* the functions the switch has a case for (of those modelled)
KnownFunctions == {INT2F_REMOVE_DIR, INT2F_MAKE_DIR, INT2F_CLOSE_FILE, INT2F_READ_FILE,
                   INT2F_DISK_INFO, INT2F_RENAME_FILE,
                   INT2F_DELETE_FILE, INT2F_OPEN_FILE, INT2F_FIND_FIRST,
                   INT2F_CREATE_FILE, INT2F_EXTENDED_OPEN_CREATE_FILE,
                   INT2F_SEEK_FROM_END}

\* the switch (function) of process_request
dispatch(function, request_data, its, fs, cv, t) ==
    CASE function \in {INT2F_REMOVE_DIR, INT2F_MAKE_DIR} ->
            handle_make_remove_dir(function, request_data, its, fs, cv, t)
      [] function = INT2F_CLOSE_FILE -> handle_close_file(request_data, its, fs, t)
      [] function = INT2F_READ_FILE -> handle_read_file(request_data, its, fs, t)
      [] function = INT2F_DISK_INFO -> handle_disk_info(its, fs)
      [] function = INT2F_RENAME_FILE -> handle_rename_file(request_data, its, fs, cv, t)
      [] function = INT2F_DELETE_FILE -> handle_delete_file(request_data, its, fs, cv, t)
      [] function = INT2F_OPEN_FILE -> handle_open_file(request_data, its, fs, cv, t)
      [] function = INT2F_FIND_FIRST -> handle_find_first(request_data, its, fs, cv, t)
      [] function = INT2F_SEEK_FROM_END -> handle_seek_from_end(request_data, its, fs, t)
      [] function \in {INT2F_CREATE_FILE, INT2F_EXTENDED_OPEN_CREATE_FILE} ->
            handle_create_open(function, request_data, its, fs, cv, t)
      [] OTHER -> Drop(its, fs)

\* a test that takes a stored packet of another sequence number for the reply
cache_hit_other(reply_info, request_packet) ==
    reply_info.len > 0 /\ reply_info.packet[2] # request_packet[2]

\* "ReplyCache contains a packet (length > 0) with the same sequence number"
cache_hit(reply_info, request_packet) ==
    reply_info.len > 0 /\ reply_info.packet[2] = request_packet[2]

\* pre-checks that let every drive index below MAX_DRIVERS_COUNT through
drive_ok_any(reqdrv) == reqdrv < MAX_DRIVERS_COUNT

\* the drive pre-checks: the index is 2..25 and the drive is shared
drive_ok(reqdrv) == ~(reqdrv < 2 \/ reqdrv >= MAX_DRIVERS_COUNT) /\ reqdrv \in SharedDrives

\* process_request: the value returned (ret), reply_info.packet afterwards,
\* the function whose case ran (fn, 0 when the switch was not reached or took
\* its default), whether an exception left the function (threw), whether a
\* handler wrote past the end of reply_info.packet (overflow), and the
\* drive's handle table and the filesystem afterwards
process_request(reply_info, request_packet, its, fs, cv, t) ==
    LET hdr   == Bytes(request_packet, 1, HDR_SIZE)
        request_data == Bytes(request_packet, HDR_SIZE + 1, Len(request_packet))
        reqdrv   == request_packet[4] % 32
        function == request_packet[3]
        fn    == IF function \in KnownFunctions THEN function ELSE 0
        Result(ret, packet, f, threw, overflow, i, s) ==
            [ret |-> ret, packet |-> packet, fn |-> f, threw |-> threw,
             overflow |-> overflow, items |-> i, fsys |-> s]
        \* the end of the function: reply_header->ax is set and the length returned
        Handled(h) ==
            IF h.kind = "drop"
            THEN Result(-1, Overlay(reply_info.packet, [hdr EXCEPT ![5] = 0, ![6] = 0]),
                        fn, FALSE, FALSE, h.items, h.fsys)
            ELSE IF h.kind = "throw"
            THEN Result(-1, Overlay(reply_info.packet, [hdr EXCEPT ![5] = 0, ![6] = 0]),
                        fn, TRUE, FALSE, h.items, h.fsys)
            ELSE Result(Len(h.data) + HDR_SIZE,
                        Overlay(reply_info.packet,
                                [hdr EXCEPT ![5] = h.ax % 256, ![6] = (h.ax \div 256) % 256]
                                \o h.data),
                        fn, FALSE, Len(h.data) > PACKET_SIZE - HDR_SIZE, h.items, h.fsys)
    IN  IF Len(request_packet) < HDR_SIZE
        THEN Result(-1, reply_info.packet, 0, FALSE, FALSE, its, fs)
        ELSE IF cache_hit(reply_info, request_packet)
        THEN Result(reply_info.len, reply_info.packet, 0, FALSE, FALSE, its, fs)
        ELSE IF ~drive_ok(reqdrv)
        THEN Result(-1, Overlay(reply_info.packet, hdr), 0, FALSE, FALSE, its, fs)
        ELSE Handled(dispatch(function, request_data, its, fs, cv, t))

-----------------------------------------------------------------------------
(* The reply cache and the main loop (netmount-server.cpp)                  *)

\* a ReplyInfo of the zero-initialized static answer_cache; packet holds the
\* bytes written so far, the rest of the 1500 are zero
EmptyReplyInfo == [packet |-> << >>, len |-> 0, ipv4_addr |-> 0, udp_port |-> 0, timestamp |-> 0]

\* the scan of get_reply_info from entry i on: the index of the entry with the
\* peer's address, else 0 and the first entry with the smallest timestamp
RECURSIVE reply_info_scan(_, _, _, _, _)
reply_info_scan(c, ipv4_addr, udp_port, i, oldest) ==
    IF i > Len(c) THEN [found |-> 0, oldest |-> oldest]
    ELSE IF c[i].ipv4_addr = ipv4_addr /\ c[i].udp_port = udp_port
    THEN [found |-> i, oldest |-> oldest]
    ELSE reply_info_scan(c, ipv4_addr, udp_port, i + 1,
                         IF c[i].timestamp < c[oldest].timestamp THEN i ELSE oldest)

\* a lookup that does not know the peer in the last entry
get_reply_info_short(c, ipv4_addr, udp_port) ==
    LET Entry(sc) ==
            IF sc.found # 0 /\ sc.found < Len(c) THEN [idx |-> sc.found, items |-> c]
            ELSE [idx |-> sc.oldest,
                  items |-> [c EXCEPT ![sc.oldest].len = 0,
                                      ![sc.oldest].ipv4_addr = ipv4_addr,
                                      ![sc.oldest].udp_port = udp_port]]
    IN  Entry(reply_info_scan(c, ipv4_addr, udp_port, 1, 1))

\* a lookup that reuses the first entry, whatever its age, when the peer has
\* none
get_reply_info_first(c, ipv4_addr, udp_port) ==
    LET Entry(sc) ==
            IF sc.found # 0 THEN [idx |-> sc.found, items |-> c]
            ELSE [idx |-> 1,
                  items |-> [c EXCEPT ![1].len = 0,
                                      ![1].ipv4_addr = ipv4_addr,
                                      ![1].udp_port = udp_port]]
    IN  Entry(reply_info_scan(c, ipv4_addr, udp_port, 1, 1))

\* a lookup that reuses the oldest entry even when the peer has one
get_reply_info_reuse(c, ipv4_addr, udp_port) ==
    LET Entry(sc) ==
            [idx |-> sc.oldest,
             items |-> [c EXCEPT ![sc.oldest].len = 0,
                                 ![sc.oldest].ipv4_addr = ipv4_addr,
                                 ![sc.oldest].udp_port = udp_port]]
    IN  Entry(reply_info_scan(c, ipv4_addr, udp_port, 1, 1))

\* ReplyCache::get_reply_info: the index of the entry returned and the cache
\* afterwards (a reused entry has len 0 and the new address)
get_reply_info(c, ipv4_addr, udp_port) ==
    LET Entry(sc) ==
            IF sc.found # 0 THEN [idx |-> sc.found, items |-> c]
            ELSE [idx |-> sc.oldest,
                  items |-> [c EXCEPT ![sc.oldest].len = 0,
                                      ![sc.oldest].ipv4_addr = ipv4_addr,
                                      ![sc.oldest].udp_port = udp_port]]
    IN  Entry(reply_info_scan(c, ipv4_addr, udp_port, 1, 1))

\* checks whose checksum step sums all the bytes received
validate_received(d) ==
    LET drop == [ok |-> FALSE, len |-> 0, cksumflag |-> 0]
        Check(request_packet_len, cksumflag, length_from_header) ==
            IF request_packet_len < HDR_SIZE THEN drop
            ELSE IF d[1] # DRIVE_PROTO_VERSION THEN drop
            ELSE IF length_from_header < HDR_SIZE THEN drop
            ELSE IF length_from_header > request_packet_len THEN drop
            ELSE IF cksumflag # 0
                    /\ bsd_checksum(Bytes(d, HDR_SIZE + 1, request_packet_len))
                       # from_little16(d, 9)
            THEN drop
            ELSE IF cksumflag = 0 /\ from_little16(d, 9) # DRIVE_PROTO_MAGIC THEN drop
            ELSE [ok |-> TRUE, len |-> length_from_header, cksumflag |-> cksumflag]
    IN  Check(IF Len(d) > RECV_BUFFER_SIZE THEN RECV_BUFFER_SIZE ELSE Len(d),
              from_little16(d, 7) \div 32768, from_little16(d, 7) % 2048)

\* the checks of the main loop on a received datagram d, in the order the loop
\* makes them: ok, the length the request is processed with, the checksum flag
validate(d) ==
    LET drop == [ok |-> FALSE, len |-> 0, cksumflag |-> 0]
        Check(request_packet_len, cksumflag, length_from_header) ==
            IF request_packet_len < HDR_SIZE THEN drop
            ELSE IF d[1] # DRIVE_PROTO_VERSION THEN drop
            ELSE IF length_from_header < HDR_SIZE THEN drop
            ELSE IF length_from_header > request_packet_len THEN drop
            ELSE IF cksumflag # 0
                    /\ bsd_checksum(Bytes(d, HDR_SIZE + 1, length_from_header))
                       # from_little16(d, 9)
            THEN drop
            ELSE IF cksumflag = 0 /\ from_little16(d, 9) # DRIVE_PROTO_MAGIC THEN drop
            ELSE [ok |-> TRUE, len |-> length_from_header, cksumflag |-> cksumflag]
    IN  Check(IF Len(d) > RECV_BUFFER_SIZE THEN RECV_BUFFER_SIZE ELSE Len(d),
              from_little16(d, 7) \div 32768, from_little16(d, 7) % 2048)

\* a header fill-in whose checksum starts at the checksum field itself
fill_in_header_wide(packet, send_msg_len, cksumflag) ==
    LET Store(lf, p1, checksum) ==
            [p1 EXCEPT ![8] = IF cksumflag # 0 THEN (lf[2] % 128) + 128 ELSE lf[2] % 128,
                       ![9] = checksum[1], ![10] = checksum[2]]
        Sum(lf, p1) ==
            Store(lf, p1,
                  IF cksumflag # 0
                  THEN to_little16(bsd_checksum(Bytes(p1, HDR_SIZE - 1, send_msg_len)))
                  ELSE to_little16(DRIVE_PROTO_MAGIC))
        Length(lf) == Sum(lf, [packet EXCEPT ![7] = lf[1], ![8] = lf[2]])
    IN  Length(to_little16(send_msg_len))

\* "fill in header": length_flags and checksum of the packet about to be sent
fill_in_header(packet, send_msg_len, cksumflag) ==
    LET Store(lf, p1, checksum) ==
            [p1 EXCEPT ![8] = IF cksumflag # 0 THEN (lf[2] % 128) + 128 ELSE lf[2] % 128,
                       ![9] = checksum[1], ![10] = checksum[2]]
        Sum(lf, p1) ==
            Store(lf, p1,
                  IF cksumflag # 0
                  THEN to_little16(bsd_checksum(Bytes(p1, HDR_SIZE + 1, send_msg_len)))
                  ELSE to_little16(DRIVE_PROTO_MAGIC))
        Length(lf) == Sum(lf, [packet EXCEPT ![7] = lf[1], ![8] = lf[2]])
    IN  Length(to_little16(send_msg_len))

\* what one pass of the while loop leaves and reports
Done(valid, cc, ii, ff, sent, cksumflag, res) ==
    [valid |-> valid, cache |-> cc, items |-> ii, fsys |-> ff, sent |-> sent,
     cksumflag |-> cksumflag, hit |-> res.hit, fn |-> res.fn, ret |-> res.ret,
     threw |-> res.threw, overflow |-> res.overflow]

\* the loop after process_request returned r for the entry g.idx: "update
\* reply cache entry", "fill in header" and send_reply; an exception leaves
\* the loop at once
main_loop_reply(v, g, r, reply_info, request_packet, t) ==
    LET Finished(final) ==
            Done(TRUE,
                 [g.items EXCEPT ![g.idx] =
                     IF r.ret >= 0
                     THEN [reply_info EXCEPT !.packet = Take(final, PACKET_SIZE),
                                             !.len = r.ret % 65536, !.timestamp = t]
                     ELSE [reply_info EXCEPT !.packet = r.packet, !.len = 0]],
                 r.items, r.fsys,
                 IF r.ret > 0 THEN Bytes(final, 1, r.ret) ELSE << >>,
                 v.cksumflag,
                 [hit |-> cache_hit(reply_info, request_packet), fn |-> r.fn,
                  ret |-> r.ret, threw |-> FALSE, overflow |-> r.overflow])
    IN  IF r.threw
        THEN Done(TRUE, [g.items EXCEPT ![g.idx].packet = r.packet], r.items, r.fsys,
                  << >>, v.cksumflag,
                  [hit |-> FALSE, fn |-> r.fn, ret |-> -1, threw |-> TRUE,
                   overflow |-> FALSE])
        ELSE Finished(IF r.ret > 0 THEN fill_in_header(r.packet, r.ret, v.cksumflag)
                      ELSE r.packet)

\* the loop after the checks v and the cache lookup g: a datagram that fails
\* a check is skipped (continue), any other goes to process_request
main_loop_request(v, g, c, its, fs, cv, t, d) ==
    IF ~v.ok
    THEN Done(FALSE, c, its, fs, << >>, v.cksumflag,
              [hit |-> FALSE, fn |-> 0, ret |-> -1, threw |-> FALSE, overflow |-> FALSE])
    ELSE main_loop_reply(v, g,
                         process_request(g.items[g.idx], Bytes(d, 1, v.len),
                                         its, fs, cv, t),
                         g.items[g.idx], Bytes(d, 1, v.len), t)

\* the body of the while loop for a datagram d from the address peer:
\* the cache, handle table and filesystem afterwards, the bytes handed to
\* send_reply (empty: nothing sent), and what happened on the way
main_loop(c, its, fs, cv, t, peer, d) ==
    main_loop_request(validate(d), get_reply_info(c, peer.ip, peer.port),
                      c, its, fs, cv, t, d)

-----------------------------------------------------------------------------
(* The environment: the host filesystem at start, the peers, the datagrams   *)

BigSize == 40000    \* size of the file g; also the longest read asked for

\* /s/c is the root of drive C: it holds the directory d and the files f (3
\* bytes) and g; /s/x is a file next to the root; the disk has 3 GiB, 64 KiB
\* of them free
InitialFs ==
    [dirs  |-> { << >>, << <<115>> >>, root, root \o << <<100>> >> },
     files |-> (root \o << <<102>> >> :> 3) @@ (root \o << <<103>> >> :> BigSize)
               @@ (<< <<115>>, <<120>> >> :> 5),
     capacity |-> 3145728, free |-> 64]

\* client paths, as the DOS client sends them
PATH_N  == << 92, 78 >>              \* \N     (does not exist at start)
PATH_D  == << 92, 68 >>              \* \D
PATH_F  == << 92, 70 >>              \* \F
PATH_G  == << 92, 71 >>              \* \G
PATH_QF == << 92, 81, 92, 70 >>      \* \Q\F   (no directory q)
PATH_UP_X == << 46, 46, 92, 88 >>    \* ..\X

\* the address of peer i; peers 2 and 3 share their IP address
Peer(i) == [ip |-> 10 + (i \div 2), port |-> 1000 + (i % 2)]

\* a datagram with the given header fields; ax of a request is ignored
Datagram(version, sequence, function, drive, length_flags, checksum, body) ==
    << version, sequence, function, drive, 171, 205 >>
    \o to_little16(length_flags) \o to_little16(checksum) \o body

\* a well-formed request, flag = 1 with the checksum, flag = 0 with the magic
Request(sequence, function, drive, body, flag) ==
    Datagram(DRIVE_PROTO_VERSION, sequence, function, drive,
             HDR_SIZE + Len(body) + 32768 * flag,
             IF flag = 1 THEN bsd_checksum(body) ELSE DRIVE_PROTO_MAGIC, body)

\* MAKE_DIR \N datagrams with one thing wrong each
Malformed(sequence, flag) ==
    LET good == Request(sequence, INT2F_MAKE_DIR, 2, PATH_N, flag)
        n    == Len(good)
        ck   == from_little16(good, 9)
        With(version, lf, checksum) ==
            Datagram(version, sequence, INT2F_MAKE_DIR, 2, lf + 32768 * flag, checksum, PATH_N)
    IN  { SubSeq(good, 1, HDR_SIZE - 1),
          With(DRIVE_PROTO_VERSION + 1, n, ck),
          With(DRIVE_PROTO_VERSION, HDR_SIZE - 1, ck),
          With(DRIVE_PROTO_VERSION, n + 1, ck),
          With(DRIVE_PROTO_VERSION, n + 2048, ck),
          With(DRIVE_PROTO_VERSION, n, (ck + 1) % 65536) }

\* well-formed requests that make \N or ask for the disk's size
DirRequests ==
    { Request(sequence, INT2F_MAKE_DIR, 2, PATH_N, flag) :
        sequence \in 1..MaxSeq, flag \in {0, 1} }
    \cup { Request(sequence, INT2F_DISK_INFO, 2, << >>, 1) : sequence \in 1..MaxSeq }

\* well-formed requests the server does not answer (a function without a
\* case, drives A, D and 26), one with reserved bits in the drive byte, and
\* one with bytes after the advertised length
OddRequests ==
    { Request(1, INT2F_UNKNOWN, 2, << >>, 0) }
    \cup { Request(1, INT2F_DISK_INFO, drive, << >>, 0) : drive \in {1, 3, 26} }
    \cup { Request(1, INT2F_DISK_INFO, 34, << >>, 1),
           Request(1, INT2F_DISK_INFO, 2, << >>, 1) \o << 1, 2 >> }

\* requests of the file functions; OPEN_FILE carries attrs, action, mode and
\* the path, READ_FILE offset 0, the handle and the length, CLOSE_FILE the
\* handle
FileRequests(sequence) ==
    { Request(sequence, INT2F_OPEN_FILE, 2, << 0, 0, 1, 0, 0, 0 >> \o path, 0) :
        path \in {PATH_G, PATH_UP_X} }
    \cup { Request(sequence, INT2F_READ_FILE, 2,
                   to_little32(0) \o to_little16(handle) \o to_little16(2), 0) :
             handle \in {0, 1} }
    \cup { Request(sequence, INT2F_DELETE_FILE, 2, path, 0) : path \in {PATH_F, PATH_QF} }
    \cup { Request(sequence, INT2F_REMOVE_DIR, 2, PATH_D, 0),
           Request(sequence, INT2F_CLOSE_FILE, 2, to_little16(0), 0) }

\* OPEN_FILE \G and READ_FILE requests for as much as a reply can hold, for
\* one byte more, and for the whole of g
ReadRequests(sequence) ==
    { Request(sequence, INT2F_OPEN_FILE, 2, << 0, 0, 1, 0, 0, 0 >> \o PATH_G, 0) }
    \cup { Request(sequence, INT2F_READ_FILE, 2,
                   to_little32(0) \o to_little16(handle) \o to_little16(len), 0) :
             handle \in {0, 1},
             len \in {PACKET_SIZE - HDR_SIZE, PACKET_SIZE - HDR_SIZE + 1, BigSize} }

-----------------------------------------------------------------------------
(* The state machine                                                         *)

NoRequest == [seq |-> -1, fn |-> 0, reply |-> << >>, last |-> << >>]

\* no call was made on the drive itself
NoCall == [op |-> "none"]

Init ==
    /\ cache = [i \in 1..REPLY_CACHE_SIZE |-> EmptyReplyInfo]
    /\ now = 1
    /\ running = "serving"
    /\ fsys = InitialFs
    /\ items = << >>
    /\ conv \in {"OFF", "RAM"}
    /\ seen = 0
    /\ answered = [p \in 1..(NumPeers + REPLY_CACHE_SIZE) |-> NoRequest]
    /\ obs = [peer |-> 0, dgram |-> << >>, valid |-> FALSE, cksumflag |-> 0, hit |-> FALSE,
              fn |-> 0, ret |-> -1, sent |-> << >>, stored |-> << >>, had_entry |-> FALSE,
              prev |-> NoRequest, threw |-> FALSE, overflow |-> FALSE]
    /\ call = NoCall
    /\ exit_flag = 0
    /\ pc = "test"
    /\ inbox = << >>

\* time(NULL) moves on
Tick ==
    /\ running = "serving"
    /\ now < MaxTime
    /\ now' = now + 1
    /\ UNCHANGED <<cache, running, fsys, items, conv, seen, answered, obs, call, signals>>

\* the cache entry with the address of peer p, 0 if there is none
EntryOf(c, p) == reply_info_scan(c, Peer(p).ip, Peer(p).port, 1, 1).found

\* One pass of the main loop: datagram d arrives from peer p.  An exception
\* that leaves process_request ends the loop.  A handler that wrote past the
\* reply buffer leaves the behaviour undefined: the process dies before the
\* send or sends what it built, and nothing is said about it afterwards.
\* obs keeps the datagram and what the loop did with it.
Serve(p, d) ==
    \E m \in {main_loop(cache, items, fsys, conv, now, Peer(p), d)} :
    \E e \in {EntryOf(cache, p)} :
    \E outcome \in (IF m.overflow THEN {"sent", "died"} ELSE {"sent"}) :
        /\ cache' = m.cache
        /\ items' = m.items
        /\ fsys' = m.fsys
        /\ running' = IF m.threw THEN "stopped"
                      ELSE IF m.overflow THEN "undefined" ELSE "serving"
        /\ answered' = IF ~m.valid THEN answered
                       ELSE IF m.hit THEN [answered EXCEPT ![p].last = m.sent]
                       ELSE IF m.fn # 0 /\ m.sent # << >>
                       THEN [answered EXCEPT ![p] = [seq |-> d[2], fn |-> m.fn,
                                                     reply |-> m.sent, last |-> m.sent]]
                       ELSE [answered EXCEPT ![p] = NoRequest]
        /\ obs' = [peer |-> p, dgram |-> d, valid |-> m.valid, cksumflag |-> m.cksumflag,
                   hit |-> m.hit, fn |-> m.fn, ret |-> m.ret,
                   sent |-> IF outcome = "died" THEN << >> ELSE m.sent,
                   stored |-> IF e # 0 THEN Bytes(cache[e].packet, 1, cache[e].len) ELSE << >>,
                   had_entry |-> e # 0, prev |-> answered[p],
                   threw |-> m.threw, overflow |-> m.overflow]
        /\ UNCHANGED <<now, conv, call>>

\* peer 1 sends a directory or disk request, or a malformed datagram
Receive ==
    /\ running = "serving"
    /\ \E d \in DirRequests \cup OddRequests \cup Malformed(1, 0) \cup Malformed(1, 1) :
         Serve(1, d)
    /\ UNCHANGED <<seen, signals>>

\* another peer asks for the disk's size
ReceiveOther ==
    /\ running = "serving"
    /\ \E p \in 2..NumPeers : Serve(p, Request(1, INT2F_DISK_INFO, 2, << >>, 0))
    /\ UNCHANGED <<seen, signals>>

\* peer 1 sends a file request
ReceiveFile ==
    /\ running = "serving"
    /\ \E sequence \in 1..MaxSeq : \E d \in FileRequests(sequence) : Serve(1, d)
    /\ UNCHANGED <<seen, signals>>

\* peer 1 opens g or reads from a handle
ReceiveRead ==
    /\ running = "serving"
    /\ \E sequence \in 1..MaxSeq : \E d \in ReadRequests(sequence) : Serve(1, d)
    /\ UNCHANGED <<seen, signals>>

\* peer 1 asks for the directory \N to be made
ReceiveDir ==
    /\ running = "serving"
    /\ \E sequence \in 1..MaxSeq, flag \in {0, 1} :
         Serve(1, Request(sequence, INT2F_MAKE_DIR, 2, PATH_N, flag))
    /\ UNCHANGED <<seen, signals>>

\* the next of the peers that send one DISK_INFO request each; there are as
\* many of them as the reply cache has entries
ReceiveOnce ==
    /\ running = "serving"
    /\ seen < REPLY_CACHE_SIZE
    /\ seen' = seen + 1
    /\ UNCHANGED signals
    /\ Serve(NumPeers + seen + 1, Request(1, INT2F_DISK_INFO, 2, << >>, 0))

\* the one-shot peers arrive within one second
TickCrowd == seen \in {0, REPLY_CACHE_SIZE} /\ Tick

\* the protocol between a few peers and the server
Next == Receive \/ ReceiveOther
Spec == Init /\ [][Next]_vars

\* one peer and as many one-shot peers as the reply cache has entries
NextCrowd == TickCrowd \/ ReceiveDir \/ ReceiveOnce
SpecCrowd == Init /\ [][NextCrowd]_vars

\* one peer working with files
NextFiles == ReceiveFile
SpecFiles == Init /\ [][NextFiles]_vars

\* one peer reading a file
NextRead == ReceiveRead
SpecRead == Init /\ [][NextRead]_vars

-----------------------------------------------------------------------------
\* The handle table on its own.  HandleCap slots stand for the 65535 of
\* MAX_HANDLE_COUNT, so that a full table and the replacement of the oldest
\* slot are reached.
HandleCap == 2

\* the server paths handles are asked for: the root, d, f, g
HandlePaths == { root, root \o << <<100>> >>, root \o << <<102>> >>, root \o << <<103>> >> }

\* Drive::get_handle(p) is called
GetHandle ==
    \E p \in HandlePaths : \E g \in {get_handle_in(items, p, now, HandleCap)} :
        /\ items' = g.items
        /\ call' = [op |-> "get_handle", path |-> p, handle |-> g.handle, before |-> items,
                    time |-> now]
        /\ UNCHANGED <<cache, now, running, fsys, conv, seen, answered, obs, signals>>

NextHandles == GetHandle \/ Tick
SpecHandles == Init /\ [][NextHandles]_vars

-----------------------------------------------------------------------------

\* FIND_FIRST requests: the attribute byte and the search template
FIND_ALL == << 63, 63, 63, 63, 63, 63, 63, 63, 46, 63, 63, 63 >>   \* ????????.???

\* search templates: \????????.???, \D\????????.??? (d is empty),
\* \Q\????????.??? (no directory q), \Q\R\X (no q to look for r in),
\* \F\X (f is a file), \ZZ (no such entry), \G
FindTemplates ==
    { << 92 >> \o FIND_ALL, PATH_D \o << 92 >> \o FIND_ALL,
      << 92, 81, 92 >> \o FIND_ALL, << 92, 81, 92, 82, 92, 88 >>,
      PATH_F \o << 92, 88 >>, << 92, 90, 90 >>, PATH_G }

\* FIND_FIRST requests for files, one for files and directories, and the
\* request that removes d
FindRequests(sequence) ==
    { Request(sequence, INT2F_FIND_FIRST, 2, << 0 >> \o template, 0) :
        template \in FindTemplates }
    \cup { Request(sequence, INT2F_FIND_FIRST, 2, << FAT_DIRECTORY, 92 >> \o FIND_ALL, 0),
           Request(sequence, INT2F_REMOVE_DIR, 2, PATH_D, 0) }

\* peer 1 searches or removes d; it numbers its requests in turn
ReceiveFind ==
    /\ running = "serving"
    /\ \E d \in FindRequests(IF obs.peer = 0 THEN 1 ELSE (obs.dgram[2] % MaxSeq) + 1) :
         Serve(1, d)
    /\ UNCHANGED <<seen, signals>>

\* one peer searching directories
NextFind == ReceiveFind
SpecFind == Init /\ [][NextFind]_vars

-----------------------------------------------------------------------------
\* EXTENDED_OPEN_CREATE requests: attrs, the action code, mode 2 and the
\* path; the targets are \N (missing), \G (a file), \D (a directory) and
\* \Q\F (below a directory that is missing)
ActionCodes == { 0, 1, 2, 3, 16, 17, 18, 33 }

OpenCreateRequests(sequence) ==
    { Request(sequence, INT2F_EXTENDED_OPEN_CREATE_FILE, 2,
              << 0, 0 >> \o to_little16(action_code) \o << 2, 0 >> \o path, 0) :
        action_code \in ActionCodes, path \in {PATH_N, PATH_G, PATH_D} }
    \cup { Request(sequence, INT2F_EXTENDED_OPEN_CREATE_FILE, 2,
                   << 0, 0 >> \o to_little16(action_code) \o << 2, 0 >> \o PATH_QF, 0) :
             action_code \in {1, 16} }

\* peer 1 opens or creates a file; it numbers its requests in turn
ReceiveOpenCreate ==
    /\ running = "serving"
    /\ \E d \in OpenCreateRequests(IF obs.peer = 0 THEN 1 ELSE (obs.dgram[2] % MaxSeq) + 1) :
         Serve(1, d)
    /\ UNCHANGED <<seen, signals>>

\* one peer opening and creating files
NextOpenCreate == ReceiveOpenCreate
SpecOpenCreate == Init /\ [][NextOpenCreate]_vars

-----------------------------------------------------------------------------
\* DISK_INFO for filesystems of many sizes.  Sizes are counted in KiB
\* (b >> 10 for b bytes): min(b, 2^31 - 1) >> 15 = min(b >> 10, 2^21 - 1) >> 5.
DiskKiB == { 0, 31, 32, 2097151, 2097152, 3145728, INT32_MAX }

InitDisk ==
    /\ cache = [i \in 1..REPLY_CACHE_SIZE |-> EmptyReplyInfo]
    /\ now = 1
    /\ running = "serving"
    /\ fsys \in { [InitialFs EXCEPT !.capacity = size[1], !.free = size[2]] :
                    size \in { s \in DiskKiB \X DiskKiB : s[2] <= s[1] } }
    /\ items = << >>
    /\ conv \in {"OFF", "RAM"}
    /\ seen = 0
    /\ answered = [p \in 1..(NumPeers + REPLY_CACHE_SIZE) |-> NoRequest]
    /\ obs = [peer |-> 0, dgram |-> << >>, valid |-> FALSE, cksumflag |-> 0, hit |-> FALSE,
              fn |-> 0, ret |-> -1, sent |-> << >>, stored |-> << >>, had_entry |-> FALSE,
              prev |-> NoRequest, threw |-> FALSE, overflow |-> FALSE]
    /\ call = NoCall
    /\ exit_flag = 0
    /\ pc = "test"
    /\ inbox = << >>

\* peer 1 asks for the size of drive C:, with or without a checksum; it
\* numbers its requests in turn
ReceiveDiskInfo ==
    /\ running = "serving"
    /\ \E flag \in {0, 1} :
         Serve(1, Request(IF obs.peer = 0 THEN 1 ELSE (obs.dgram[2] % MaxSeq) + 1,
                          INT2F_DISK_INFO, 2, << >>, flag))
    /\ UNCHANGED <<seen, signals>>

NextDisk == ReceiveDiskInfo
SpecDisk == InitDisk /\ [][NextDisk]_vars

-----------------------------------------------------------------------------
\* Seeking from the end, on a file f of each of the sizes SeekSizes.
SeekSizes == { 0, 1, 65536, INT32_MAX }

\* the words of the offsets from the end: around 0, around the sign bit
SeekWordsHi == { 0, 1, 32767, 32768, 65535 }
SeekWordsLo == { 0, 1, 65535 }

SeekFs(size) ==
    [dirs  |-> { << >>, << <<115>> >>, root },
     files |-> [q \in { root \o << <<102>> >> } |-> size],
     capacity |-> 3145728, free |-> 64]

InitSeek ==
    /\ cache = [i \in 1..REPLY_CACHE_SIZE |-> EmptyReplyInfo]
    /\ now = 1
    /\ running = "serving"
    /\ fsys \in { SeekFs(size) : size \in SeekSizes }
    /\ items = << >>
    /\ conv \in {"OFF", "RAM"}
    /\ seen = 0
    /\ answered = [p \in 1..(NumPeers + REPLY_CACHE_SIZE) |-> NoRequest]
    /\ obs = [peer |-> 0, dgram |-> << >>, valid |-> FALSE, cksumflag |-> 0, hit |-> FALSE,
              fn |-> 0, ret |-> -1, sent |-> << >>, stored |-> << >>, had_entry |-> FALSE,
              prev |-> NoRequest, threw |-> FALSE, overflow |-> FALSE]
    /\ call = NoCall
    /\ exit_flag = 0
    /\ pc = "test"
    /\ inbox = << >>

\* OPEN_FILE \F, and SEEK_FROM_END on the handles 0, 1 and 2
SeekRequests(sequence) ==
    { Request(sequence, INT2F_OPEN_FILE, 2, << 0, 0, 1, 0, 0, 0 >> \o PATH_F, 0) }
    \cup { Request(sequence, INT2F_SEEK_FROM_END, 2,
                   to_little16(hi) \o to_little16(lo) \o to_little16(handle), 0) :
             hi \in SeekWordsHi, lo \in SeekWordsLo, handle \in {0, 1, 2} }

\* peer 1 opens f or seeks; it numbers its requests in turn
ReceiveSeek ==
    /\ running = "serving"
    /\ \E d \in SeekRequests(IF obs.peer = 0 THEN 1 ELSE (obs.dgram[2] % MaxSeq) + 1) :
         Serve(1, d)
    /\ UNCHANGED <<seen, signals>>

NextSeek == ReceiveSeek
SpecSeek == InitSeek /\ [][NextSeek]_vars

-----------------------------------------------------------------------------
\* The main loop under termination signals (POSIX socket).  MaxInbox
\* datagrams at most wait in the socket.
MaxInbox == 2

\* a datagram arrives at the socket: DISK_INFO from peer 1
Arrive ==
    /\ pc # "exited"
    /\ Len(inbox) < MaxInbox
    /\ \E sequence \in 1..MaxSeq :
         inbox' = Append(inbox, [peer |-> 1,
                                 dgram |-> Request(sequence, INT2F_DISK_INFO, 2, << >>, 0),
                                 after_signal |-> exit_flag = 1])
    /\ UNCHANGED <<cache, now, running, fsys, items, conv, seen, answered, obs, call,
                   exit_flag, pc>>

\* signal_handler runs for SIGINT, SIGQUIT or SIGTERM: exit_flag = 1 (the
\* socket's signal_stop does nothing); a select in progress fails with EINTR,
\* wait_for_data returns SIGNAL and the loop continues at its test
signal_handler ==
    /\ pc # "exited"
    /\ exit_flag' = 1
    /\ pc' = IF pc = "select" THEN "test" ELSE pc
    /\ UNCHANGED <<cache, now, running, fsys, items, conv, seen, answered, obs, call, inbox>>

\* while (exit_flag == 0)
LoopTest ==
    /\ pc = "test"
    /\ running = "serving"
    /\ pc' = IF exit_flag = 0 THEN "call_select" ELSE "exited"
    /\ UNCHANGED <<cache, now, running, fsys, items, conv, seen, answered, obs, call,
                   exit_flag, inbox>>

\* wait_for_data calls select
EnterSelect ==
    /\ pc = "call_select"
    /\ pc' = "select"
    /\ UNCHANGED <<cache, now, running, fsys, items, conv, seen, answered, obs, call,
                   exit_flag, inbox>>

\* select returns: READY when a datagram waits or has arrived, TIMEOUT (and
\* the loop continues at its test) when none has
SelectReturns ==
    /\ pc = "select"
    /\ pc' = IF inbox # << >> THEN "receive" ELSE "test"
    /\ UNCHANGED <<cache, now, running, fsys, items, conv, seen, answered, obs, call,
                   exit_flag, inbox>>

\* sock.receive reads the first datagram of the queue into request_packet
SockReceive ==
    /\ pc = "receive"
    /\ pc' = "process"
    /\ UNCHANGED <<cache, now, running, fsys, items, conv, seen, answered, obs, call,
                   exit_flag, inbox>>

\* the rest of the loop body: the datagram is checked, dispatched and answered
Process ==
    /\ pc = "process"
    /\ Serve(Head(inbox).peer, Head(inbox).dgram)
    /\ inbox' = Tail(inbox)
    /\ pc' = "test"
    /\ UNCHANGED <<seen, exit_flag>>

NextSignal ==
    Arrive \/ signal_handler \/ LoopTest \/ EnterSelect \/ SelectReturns \/ SockReceive
    \/ Process
SpecSignal == Init /\ [][NextSignal]_vars

-----------------------------------------------------------------------------

\* Listings and searches on their own, over directories whose names fold to
\* the same 8.3 name or need a ~N suffix.

\* the names in the directory d: none; f and F; a+, a, and A~1; abcdefghi
\* and abcdefghj; f and g.t
ListingNames ==
    { {},
      { <<102>>, <<70>> },
      { <<97, 43>>, <<97, 44>>, <<65, 126, 49>> },
      { <<97, 98, 99, 100, 101, 102, 103, 104, 105>>,
        <<97, 98, 99, 100, 101, 102, 103, 104, 106>> },
      { <<102>>, <<103, 46, 116>> } }

\* the root holds the directory d and the file g; d holds files of one byte
\* with the names S
ListingFs(S) ==
    [dirs  |-> { << >>, << <<115>> >>, root, root \o << <<100>> >> },
     files |-> [q \in { root \o << <<100>>, n >> : n \in S } \cup { root \o << <<103>> >> }
                  |-> 1],
     capacity |-> 3145728, free |-> 64]

InitListing ==
    /\ cache = [i \in 1..REPLY_CACHE_SIZE |-> EmptyReplyInfo]
    /\ now = 1
    /\ running = "serving"
    /\ fsys \in { ListingFs(S) : S \in ListingNames }
    /\ items = << >>
    /\ conv \in {"OFF", "RAM"}
    /\ seen = 0
    /\ answered = [p \in 1..(NumPeers + REPLY_CACHE_SIZE) |-> NoRequest]
    /\ obs = [peer |-> 0, dgram |-> << >>, valid |-> FALSE, cksumflag |-> 0, hit |-> FALSE,
              fn |-> 0, ret |-> -1, sent |-> << >>, stored |-> << >>, had_entry |-> FALSE,
              prev |-> NoRequest, threw |-> FALSE, overflow |-> FALSE]
    /\ call = NoCall
    /\ exit_flag = 0
    /\ pc = "test"
    /\ inbox = << >>

\* search masks: ????????.??? and F
FindMasks == { [i \in 1..11 |-> 63], short_name_to_fcb(<<102>>) }

\* search attributes: files only, files and directories, the volume label
FindAttrs == { 0, FAT_DIRECTORY, FAT_VOLUME }

\* Drive::find_file is called on a handle: to start a search (nth = 0) or to
\* go on with the search of the call before, with the nth that call returned
FindFile ==
    \E h \in 0..(Len(items) - 1), tmpl \in FindMasks, attr \in FindAttrs, first \in BOOLEAN :
        /\ valid_handle(items, h)
        /\ first \/ /\ call.op = "find_file"
                    /\ call.found
                    /\ call.handle = h /\ call.tmpl = tmpl /\ call.attr = attr
        /\ \E r \in { drive_find_file(items, fsys, conv, now, h, tmpl, attr,
                                      IF first THEN 0 ELSE call.nth) } :
             /\ items' = r.items
             /\ call' = [op |-> "find_file", handle |-> h, tmpl |-> tmpl, attr |-> attr,
                         nth_in |-> IF first THEN 0 ELSE call.nth,
                         found |-> r.found, nth |-> r.nth, props |-> r.props,
                         count |-> (IF first THEN 0 ELSE call.count)
                                   + (IF r.found THEN 1 ELSE 0)]
        /\ UNCHANGED <<cache, now, running, fsys, conv, seen, answered, obs, signals>>

NextListing == GetHandle \/ FindFile
SpecListing == InitListing /\ [][NextListing]_vars

\* The operations of Drive that take a handle, called with any handle from 0
\* to HandleCap, which no table reaches: a read of one byte at offset 3, a
\* write_file that cuts or extends the file to 3 bytes, a search for all files
ItemPaths == { root, root \o << <<102>> >> }

\* Drive::get_handle(p) is called for the root or for the file f
GetItemHandle ==
    \E p \in ItemPaths : \E g \in {get_handle_in(items, p, now, HandleCap)} :
        /\ items' = g.items
        /\ call' = [op |-> "get_handle", path |-> p, handle |-> g.handle, before |-> items,
                    time |-> now]
        /\ UNCHANGED <<cache, now, running, fsys, conv, seen, answered, obs, signals>>

HandleOps == { "get_handle_path", "read_file", "write_file", "get_file_size", "find_file" }

HandleCall ==
    \E h \in 0..HandleCap, op \in HandleOps, offset \in {3}, len \in {1} :
    \E r \in { CASE op = "get_handle_path" ->
                      [c |-> drive_get_handle_path(items, now, h), fsys |-> fsys]
                  [] op = "read_file" ->
                      [c |-> drive_read_file(items, fsys, now, h, offset, len), fsys |-> fsys]
                  [] op = "write_file" ->
                      [c |-> drive_write_file(items, fsys, now, h, offset, 0),
                       fsys |-> drive_write_file(items, fsys, now, h, offset, 0).fsys]
                  [] op = "get_file_size" ->
                      [c |-> drive_get_file_size(items, fsys, now, h), fsys |-> fsys]
                  [] op = "find_file" ->
                      [c |-> drive_find_file(items, fsys, conv, now, h,
                                             [i \in 1..11 |-> 63], 0, 0),
                       fsys |-> fsys] } :
        /\ items' = r.c.items
        /\ fsys' = r.fsys
        /\ call' = [op |-> op, handle |-> h, threw |-> r.c.threw,
                    before |-> items, fsys_before |-> fsys]
        /\ UNCHANGED <<cache, now, running, conv, seen, answered, obs, signals>>

NextItems == GetItemHandle \/ HandleCall \/ Tick
SpecItems == Init /\ [][NextItems]_vars

\* Handles and listings over a long time: a second passes (up to MaxTime
\* seconds in a row), or the server is idle for LISTING_MAX_AGE seconds
Second ==
    /\ now % LISTING_MAX_AGE < MaxTime
    /\ now' = now + 1
    /\ UNCHANGED <<cache, running, fsys, items, conv, seen, answered, obs, call, signals>>

Idle ==
    /\ now < LISTING_MAX_AGE
    /\ now' = now + LISTING_MAX_AGE
    /\ UNCHANGED <<cache, running, fsys, items, conv, seen, answered, obs, call, signals>>

NextAge == GetItemHandle \/ FindFile \/ Second \/ Idle
SpecAge == Init /\ [][NextAge]_vars

-----------------------------------------------------------------------------

\* file_name_to_83 on its own, over the set used_names its caller keeps from
\* one call to the next.  The set starts empty, or as it is after the entries
\* A, A~1, ..., A~9998 of one directory were named.

MaxNames == 3       \* calls of file_name_to_83 on one set

\* the 8.3 name base~n.ext: base cut so that base~n has at most 8 bytes
Candidate(base, ext, n) ==
    LET Fit(digits) ==
            LET room == 7 - Len(digits)
                kept == Take(base, room)
            IN  kept \o << 126 >> \o digits \o Blanks(7 - Len(kept) - Len(digits))
                     \o ext \o Blanks(3 - Len(ext))
    IN  Fit(to_chars(n))

\* A and A~1 .. A~9998
UsedNames == { Candidate(<<65>>, << >>, n) : n \in 1..9998 } \cup { short_name_to_fcb(<<65>>) }

\* the names handed in: a, A, a+, a.b, abcdefghi, A~1, "a " and a.bcde
LongNames ==
    { <<97>>, <<65>>, <<97, 43>>, <<97, 46, 98>>,
      <<97, 98, 99, 100, 101, 102, 103, 104, 105>>, <<65, 126, 49>>, <<97, 32>>,
      <<97, 46, 98, 99, 100, 101>> }

InitNames ==
    /\ cache = [i \in 1..REPLY_CACHE_SIZE |-> EmptyReplyInfo]
    /\ now = 1
    /\ running = "serving"
    /\ fsys = InitialFs
    /\ items = << >>
    /\ conv = "RAM"
    /\ seen = 0
    /\ answered = [p \in 1..(NumPeers + REPLY_CACHE_SIZE) |-> NoRequest]
    /\ obs = [peer |-> 0, dgram |-> << >>, valid |-> FALSE, cksumflag |-> 0, hit |-> FALSE,
              fn |-> 0, ret |-> -1, sent |-> << >>, stored |-> << >>, had_entry |-> FALSE,
              prev |-> NoRequest, threw |-> FALSE, overflow |-> FALSE]
    /\ call \in { [op |-> "none", used |-> U, count |-> 0] : U \in { {}, UsedNames } }
    /\ exit_flag = 0
    /\ pc = "test"
    /\ inbox = << >>

\* file_name_to_83(long_name, fcb_name, used_names) is called
FileNameTo83 ==
    \E long_name \in LongNames : \E r \in { file_name_to_83(long_name, call.used) } :
        /\ call.count < MaxNames
        /\ call' = [op |-> "file_name_to_83", long_name |-> long_name,
                    before |-> call.used, ok |-> r.ok, fcb |-> r.fcb, used |-> r.used,
                    count |-> call.count + 1]
        /\ UNCHANGED <<cache, now, running, fsys, items, conv, seen, answered, obs, signals>>

NextNames == FileNameTo83
SpecNames == InitNames /\ [][NextNames]_vars

-----------------------------------------------------------------------------

\* Path translation on its own (name conversion RAM), over a tree whose
\* server names differ from the names the client sends: the root holds the
\* directory d and the file g; d holds the file f, the directory E and the
\* file "long name.txt"; E holds the file h

PathsFs ==
    [dirs  |-> { << >>, << <<115>> >>, root, root \o << <<100>> >>,
                 root \o << <<100>>, <<69>> >> },
     files |-> [q \in { root \o << <<103>> >>, root \o << <<100>>, <<102>> >>,
                        root \o << <<100>>,
                                   <<108, 111, 110, 103, 32, 110, 97, 109, 101,
                                     46, 116, 120, 116>> >>,
                        root \o << <<100>>, <<69>>, <<104>> >> } |-> 1],
     capacity |-> 3145728, free |-> 64]

\* the client paths asked for, by their elements: the empty path, d, x, d/f,
\* d/x, d/e, d/e/h, d/e/x, x/y, d/x/y, g/x, d/"long n~1.txt"
ClientPaths ==
    { << >>, << <<100>> >>, << <<120>> >>, << <<100>>, <<102>> >>,
      << <<100>>, <<120>> >>, << <<100>>, <<101>> >>,
      << <<100>>, <<101>>, <<104>> >>, << <<100>>, <<101>>, <<120>> >>,
      << <<120>>, <<121>> >>, << <<100>>, <<120>>, <<121>> >>,
      << <<103>>, <<120>> >>,
      << <<100>>, <<108, 111, 110, 103, 32, 110, 126, 49, 46, 116, 120, 116>> >> }

InitPaths ==
    /\ cache = [i \in 1..REPLY_CACHE_SIZE |-> EmptyReplyInfo]
    /\ now = 1
    /\ running = "serving"
    /\ fsys = PathsFs
    /\ items = << >>
    /\ conv = "RAM"
    /\ seen = 0
    /\ answered = [p \in 1..(NumPeers + REPLY_CACHE_SIZE) |-> NoRequest]
    /\ obs = [peer |-> 0, dgram |-> << >>, valid |-> FALSE, cksumflag |-> 0, hit |-> FALSE,
              fn |-> 0, ret |-> -1, sent |-> << >>, stored |-> << >>, had_entry |-> FALSE,
              prev |-> NoRequest, threw |-> FALSE, overflow |-> FALSE]
    /\ call = NoCall
    /\ exit_flag = 0
    /\ pc = "test"
    /\ inbox = << >>

\* Drive::create_server_path(client_path, create_directory_list) is called
CreateServerPath ==
    \E client_path \in ClientPaths, create \in BOOLEAN :
    \E r \in { create_server_path(items, fsys, conv, now, client_path, create) } :
        /\ items' = r.items
        /\ call' = [op |-> "create_server_path", client_path |-> client_path,
                    create |-> create, path |-> r.path, exist |-> r.exist,
                    threw |-> r.threw, before |-> items, fsys_before |-> fsys]
        /\ UNCHANGED <<cache, now, running, fsys, conv, seen, answered, obs, signals>>

\* another process of the host removes d/f or puts it back
HostChange ==
    /\ fsys' = IF root \o << <<100>>, <<102>> >> \in DOMAIN fsys.files
               THEN [fsys EXCEPT !.files =
                        [q \in DOMAIN @ \ { root \o << <<100>>, <<102>> >> } |-> @[q]]]
               ELSE [fsys EXCEPT !.files = (root \o << <<100>>, <<102>> >> :> 1) @@ @]
    /\ UNCHANGED <<cache, now, running, items, conv, seen, answered, obs, call, signals>>

NextPaths == CreateServerPath \/ HostChange
SpecPaths == InitPaths /\ [][NextPaths]_vars

-----------------------------------------------------------------------------

\* Searches with every attribute filter, on a drive on FAT whose files have
\* DOS attributes: the root holds the directory d and the hidden file g; d
\* holds the directory s and the files a .. h with every combination of
\* READ-ONLY, HIDDEN and SYSTEM, some of them with ARCHIVE

AttrFiles == { root \o << <<100>>, <<97 + k>> >> : k \in 0..7 }

AttrFs ==
    [dirs  |-> { << >>, << <<115>> >>, root, root \o << <<100>> >>,
                 root \o << <<100>>, <<115>> >> },
     files |-> [q \in AttrFiles \cup { root \o << <<103>> >> } |-> 1],
     fat   |-> [q \in AttrFiles \cup { root \o << <<103>> >> } |->
                  IF q = root \o << <<103>> >> THEN FAT_HIDDEN
                  ELSE LET k == q[3][1] - 97
                       IN  FAT_RO * (k % 2) + FAT_HIDDEN * ((k \div 2) % 2)
                           + FAT_SYSTEM * ((k \div 4) % 2)
                           + (IF k \in {0, 3, 5, 6} THEN FAT_ARCHIVE ELSE 0)],
     capacity |-> 3145728, free |-> 64]

InitAttrs ==
    /\ cache = [i \in 1..REPLY_CACHE_SIZE |-> EmptyReplyInfo]
    /\ now = 1
    /\ running = "serving"
    /\ fsys = AttrFs
    /\ items = << >>
    /\ conv \in {"OFF", "RAM"}
    /\ seen = 0
    /\ answered = [p \in 1..(NumPeers + REPLY_CACHE_SIZE) |-> NoRequest]
    /\ obs = [peer |-> 0, dgram |-> << >>, valid |-> FALSE, cksumflag |-> 0, hit |-> FALSE,
              fn |-> 0, ret |-> -1, sent |-> << >>, stored |-> << >>, had_entry |-> FALSE,
              prev |-> NoRequest, threw |-> FALSE, overflow |-> FALSE]
    /\ call = NoCall
    /\ exit_flag = 0
    /\ pc = "test"
    /\ inbox = << >>

\* Drive::get_handle(p) is called for the root or for d
GetDirHandle ==
    \E p \in { root, root \o << <<100>> >> } :
    \E g \in {get_handle_in(items, p, now, HandleCap)} :
        /\ items' = g.items
        /\ call' = [op |-> "get_handle", path |-> p, handle |-> g.handle, before |-> items,
                    time |-> now]
        /\ UNCHANGED <<cache, now, running, fsys, conv, seen, answered, obs, signals>>

\* the attribute bytes searched with: every combination of HIDDEN, SYSTEM and
\* DIRECTORY, and VOLUME, VOLUME with HIDDEN, READ-ONLY, ARCHIVE with HIDDEN
\* and all six bits
AttrFilters ==
    { h + s + d : h \in {0, FAT_HIDDEN}, s \in {0, FAT_SYSTEM}, d \in {0, FAT_DIRECTORY} }
    \cup { FAT_VOLUME, FAT_VOLUME + FAT_HIDDEN, FAT_RO, FAT_ARCHIVE + FAT_HIDDEN, 63 }

\* Drive::find_file is called on a handle with an attribute byte, for all
\* names or for the name D: to start a search or to go on with the search of
\* the call before
FindByAttr ==
    \E h \in 0..(Len(items) - 1), attr \in AttrFilters, first \in BOOLEAN :
    \E tmpl \in { [i \in 1..11 |-> 63], short_name_to_fcb(<<100>>) } :
        /\ valid_handle(items, h)
        /\ first \/ /\ call.op = "find_file"
                    /\ call.found
                    /\ call.handle = h /\ call.tmpl = tmpl /\ call.attr = attr
        /\ \E r \in { drive_find_file(items, fsys, conv, now, h, tmpl, attr,
                                      IF first THEN 0 ELSE call.nth) } :
             /\ items' = r.items
             /\ call' = [op |-> "find_file", handle |-> h, tmpl |-> tmpl, attr |-> attr,
                         nth_in |-> IF first THEN 0 ELSE call.nth,
                         found |-> r.found, nth |-> r.nth, props |-> r.props,
                         count |-> (IF first THEN 0 ELSE call.count)
                                   + (IF r.found THEN 1 ELSE 0)]
        /\ UNCHANGED <<cache, now, running, fsys, conv, seen, answered, obs, signals>>

NextAttrs == GetDirHandle \/ FindByAttr
SpecAttrs == InitAttrs /\ [][NextAttrs]_vars

-----------------------------------------------------------------------------

\* DELETE_FILE requests on their own.  The root holds the directory d and the
\* file g; d holds nothing, the files a and b, or a, b and a file whose name
\* is "?"

DeleteNames == { {}, { <<97>>, <<98>> }, { <<97>>, <<98>>, <<63>> } }

\* the paths deleted: \N (missing), \G, \? , \D\?, \D\A, \D\X (missing), \D
DeletePaths ==
    { << 92, 78 >>, << 92, 71 >>, << 92, 63 >>, << 92, 68, 92, 63 >>,
      << 92, 68, 92, 65 >>, << 92, 68, 92, 88 >>, << 92, 68 >> }

DeleteRequests(sequence) ==
    { Request(sequence, INT2F_DELETE_FILE, 2, path, 0) : path \in DeletePaths }

InitDelete ==
    /\ cache = [i \in 1..REPLY_CACHE_SIZE |-> EmptyReplyInfo]
    /\ now = 1
    /\ running = "serving"
    /\ fsys \in { ListingFs(S) : S \in DeleteNames }
    /\ items = << >>
    /\ conv \in {"OFF", "RAM"}
    /\ seen = 0
    /\ answered = [p \in 1..(NumPeers + REPLY_CACHE_SIZE) |-> NoRequest]
    /\ obs = [peer |-> 0, dgram |-> << >>, valid |-> FALSE, cksumflag |-> 0, hit |-> FALSE,
              fn |-> 0, ret |-> -1, sent |-> << >>, stored |-> << >>, had_entry |-> FALSE,
              prev |-> NoRequest, threw |-> FALSE, overflow |-> FALSE]
    /\ call = NoCall
    /\ exit_flag = 0
    /\ pc = "test"
    /\ inbox = << >>

\* peer 1 deletes a file or files; it numbers its requests in turn
ReceiveDelete ==
    /\ running = "serving"
    /\ \E d \in DeleteRequests(IF obs.peer = 0 THEN 1 ELSE (obs.dgram[2] % MaxSeq) + 1) :
         Serve(1, d)
    /\ UNCHANGED <<seen, signals>>

NextDelete == ReceiveDelete
SpecDelete == InitDelete /\ [][NextDelete]_vars

-----------------------------------------------------------------------------

-----------------------------------------------------------------------------
(* RENAME_FILE requests with bodies of every short length                   *)

\* the bytes behind the first one: G H, H G, D G, \G\H
RenameTails ==
    { << 71, 72 >>, << 72, 71 >>, << 68, 71 >>, << 92, 71, 92, 72 >> }

\* bodies of 0, 1 and 2 bytes, and a first byte in front of each tail
RenameBodies ==
    { << >> } \cup { << n >> : n \in {0, 1, 255} }
    \cup { << n, 71 >> : n \in {0, 1, 2, 255} }
    \cup { << n >> \o tail : n \in {0, 1, 2, 4, 5, 255}, tail \in RenameTails }

RenameRequests(sequence) ==
    { Request(sequence, INT2F_RENAME_FILE, 2, body, 0) : body \in RenameBodies }

InitRename ==
    /\ cache = [i \in 1..REPLY_CACHE_SIZE |-> EmptyReplyInfo]
    /\ now = 1
    /\ running = "serving"
    /\ fsys \in { ListingFs(S) : S \in { {}, { <<97>> } } }
    /\ items = << >>
    /\ conv \in {"OFF", "RAM"}
    /\ seen = 0
    /\ answered = [p \in 1..(NumPeers + REPLY_CACHE_SIZE) |-> NoRequest]
    /\ obs = [peer |-> 0, dgram |-> << >>, valid |-> FALSE, cksumflag |-> 0, hit |-> FALSE,
              fn |-> 0, ret |-> -1, sent |-> << >>, stored |-> << >>, had_entry |-> FALSE,
              prev |-> NoRequest, threw |-> FALSE, overflow |-> FALSE]
    /\ call = NoCall
    /\ exit_flag = 0
    /\ pc = "test"
    /\ inbox = << >>

\* peer 1 renames; it numbers its requests in turn
ReceiveRename ==
    /\ running = "serving"
    /\ \E d \in RenameRequests(IF obs.peer = 0 THEN 1 ELSE (obs.dgram[2] % MaxSeq) + 1) :
         Serve(1, d)
    /\ UNCHANGED <<seen, signals>>

NextRename == ReceiveRename
SpecRename == InitRename /\ [][NextRename]_vars

-----------------------------------------------------------------------------
(* The DOS attributes kept in the extended attribute user.NetMountAttrs     *)

\* the file \G, the directory \D and the missing \N
XattrPaths == { root \o << <<103>> >>, root \o << <<100>> >>, root \o << <<110>> >> }

\* what the attribute of a path holds before the first call: nothing (0-1)
\* or a byte some program stored
XattrPrior == { -1, 0, 32, 7, 255 }

\* the attribute bytes set
XattrBytes == { 0, 1, 2, 4, 8, 16, 32, 33, 39, 40, 48, 64, 128, 255 }

XattrFs(of_file, of_dir) ==
    [dirs  |-> { << >>, << <<115>> >>, root, root \o << <<100>> >> },
     files |-> [q \in { root \o << <<103>> >> } |-> 1],
     xattr |-> [q \in (IF of_file >= 0 THEN { root \o << <<103>> >> } ELSE {})
                      \cup (IF of_dir >= 0 THEN { root \o << <<100>> >> } ELSE {}) |->
                  IF q = root \o << <<103>> >> THEN of_file ELSE of_dir],
     capacity |-> 3145728, free |-> 64]

InitXattr ==
    /\ cache = [i \in 1..REPLY_CACHE_SIZE |-> EmptyReplyInfo]
    /\ now = 1
    /\ running = "serving"
    /\ fsys \in { XattrFs(f, d) : f \in XattrPrior, d \in XattrPrior }
    /\ items = << >>
    /\ conv = "RAM"
    /\ seen = 0
    /\ answered = [p \in 1..(NumPeers + REPLY_CACHE_SIZE) |-> NoRequest]
    /\ obs = [peer |-> 0, dgram |-> << >>, valid |-> FALSE, cksumflag |-> 0, hit |-> FALSE,
              fn |-> 0, ret |-> -1, sent |-> << >>, stored |-> << >>, had_entry |-> FALSE,
              prev |-> NoRequest, threw |-> FALSE, overflow |-> FALSE]
    /\ call = NoCall
    /\ exit_flag = 0
    /\ pc = "test"
    /\ inbox = << >>

\* set_dos_attrs_to_extended(path, attrs) is called
SetDosAttrs ==
    \E path \in XattrPaths : \E attrs \in XattrBytes : \E permitted \in BOOLEAN :
    \E r \in { set_dos_attrs_to_extended(fsys, path, attrs, permitted) } :
        /\ fsys' = r.fsys
        /\ call' = [op |-> "set_dos_attrs_to_extended", path |-> path, attrs |-> attrs,
                    had |-> path \in DOMAIN fsys.xattr, threw |-> r.threw]
        /\ UNCHANGED <<cache, now, running, items, conv, seen, answered, obs, signals>>

\* get_dos_attrs_from_extended(path) is called
GetDosAttrs ==
    \E path \in XattrPaths : \E r \in { get_dos_attrs_from_extended(fsys, path) } :
        /\ call' = [op |-> "get_dos_attrs_from_extended", path |-> path,
                    attrs |-> r.attrs, threw |-> r.threw]
        /\ UNCHANGED <<cache, now, running, fsys, items, conv, seen, answered, obs,
                       signals>>

NextXattr == SetDosAttrs \/ GetDosAttrs
SpecXattr == InitXattr /\ [][NextXattr]_vars

-----------------------------------------------------------------------------
(* IP and UDP in SLIP over a serial line (slip_udp_serial.cpp)              *)

MTU == 1500
SLIP_END == 192
SLIP_ESC == 219
SLIP_ESC_END == 220
SLIP_ESC_ESC == 221
IPV4_PROTOCOL_UDP == 17
IPV4_HDR_SIZE == 20             \* sizeof(ipv4_hdr)
UDP_HDR_SIZE == 8               \* sizeof(udp_hdr)
NET_HEADERS_SIZE == 28          \* sizeof(net_headers)
RX_BUFFER_SIZE == MTU           \* rx_buffer.resize(MTU)
TX_BUFFER_SIZE == MTU * 2       \* tx_buffer.resize(MTU * 2)

\* to_big16 / to_big32: the bytes of the value in network byte order; a
\* 32-bit value is held as its high and its low 16 bits
to_big16(v) == << (v \div 256) % 256, v % 256 >>
to_big32(v) == to_big16(v.hi) \o to_big16(v.lo)

\* the 16-bit words of bytes as the host reads them, summed (sum += *ptr++);
\* a left-over byte is added as it is
RECURSIVE checksum_words(_, _)
checksum_words(bytes, i) ==
    IF i > Len(bytes) THEN 0
    ELSE IF i = Len(bytes) THEN bytes[i]
    ELSE bytes[i] + 256 * bytes[i + 1] + checksum_words(bytes, i + 2)

\* "Fold 32-bit sum to 16 bits"
RECURSIVE checksum_fold(_)
checksum_fold(sum) ==
    IF sum \div 65536 # 0 THEN checksum_fold((sum % 65536) + (sum \div 65536)) ELSE sum

\* internet_checksum: ~sum as uint16_t (the sum of at most 32768 words of 16
\* bits stays below 2^32)
internet_checksum(bytes) == 65535 - checksum_fold(checksum_words(bytes, 1))

\* build_headers: the 28 bytes of net_headers; id is last_sent_packet_id
\* after its increment, hdr_csum is stored as the host holds it
build_headers(id, src_ip, dst_ip, src_port, dst_port, length) ==
    LET Ipv4(hdr_csum) ==
            << 4 * 16 + IPV4_HDR_SIZE \div 4, 0 >>
            \o to_big16((NET_HEADERS_SIZE + length) % 65536) \o to_big16(id)
            \o to_big16(2 * 8192) \o << 64, IPV4_PROTOCOL_UDP >>
            \o << hdr_csum % 256, hdr_csum \div 256 >>
            \o to_big32(src_ip) \o to_big32(dst_ip)
    IN  Ipv4(internet_checksum(Ipv4(0)))
        \o to_big16(src_port) \o to_big16(dst_port)
        \o to_big16((UDP_HDR_SIZE + length) % 65536) \o << 0, 0 >>

\* one pass of the loop of encode_slip_block: what a data byte puts into dest
encode_slip_byte(data_byte) ==
    IF data_byte = SLIP_END THEN << SLIP_ESC, SLIP_ESC_END >>
    ELSE IF data_byte = SLIP_ESC THEN << SLIP_ESC, SLIP_ESC_ESC >>
    ELSE << data_byte >>

\* the loop of encode_slip_block over the bytes lo..hi of data: the passes
\* write one behind the other, so the bytes of a range are those of its first
\* half followed by those of its second
RECURSIVE encode_slip_range(_, _, _)
encode_slip_range(data, lo, hi) ==
    IF lo > hi THEN << >>
    ELSE IF lo = hi THEN encode_slip_byte(data[lo])
    ELSE encode_slip_range(data, lo, (lo + hi) \div 2)
         \o encode_slip_range(data, (lo + hi) \div 2 + 1, hi)

\* encode_slip_block: the bytes written to dest; their number is returned
encode_slip_block(data) == encode_slip_range(data, 1, Len(data))

\* encode_slip: the bytes written from tx_buffer[0] on, tx_len of them,
\* whether or not tx_buffer has room for them
encode_slip(headers, data) ==
    << SLIP_END >> \o encode_slip_block(headers) \o encode_slip_block(data)
    \o << SLIP_END >>

\* recv_decode_slip before its first pass: pos is the next byte of the line,
\* buf the bytes stored in rx_buffer (len = Len(buf)), ret the value returned
DecodeStart ==
    [pos |-> 1, started |-> FALSE, buf |-> << >>, done |-> FALSE, ret |-> 0]

\* one pass of the while loop of recv_decode_slip over the bytes of line
recv_decode_step(st, line) ==
    LET Escaped(next) ==
            IF next = SLIP_ESC_END
            THEN [st EXCEPT !.pos = @ + 2, !.buf = Append(@, SLIP_END)]
            ELSE IF next = SLIP_ESC_ESC
            THEN [st EXCEPT !.pos = @ + 2, !.buf = Append(@, SLIP_ESC)]
            ELSE [st EXCEPT !.pos = @ + 2]
        Byte(rcv_byte) ==
            IF rcv_byte = SLIP_END
            THEN IF st.started /\ Len(st.buf) > 0
                 THEN [st EXCEPT !.pos = @ + 1, !.done = TRUE, !.ret = Len(st.buf)]
                 ELSE [st EXCEPT !.pos = @ + 1, !.started = TRUE]
            ELSE IF ~st.started THEN [st EXCEPT !.pos = @ + 1]
            ELSE IF Len(st.buf) + 1 = RX_BUFFER_SIZE
            THEN [st EXCEPT !.pos = @ + 1, !.done = TRUE, !.ret = 0]
            ELSE IF rcv_byte = SLIP_ESC
            THEN IF st.pos + 1 > Len(line)
                 THEN [st EXCEPT !.pos = @ + 1, !.done = TRUE, !.ret = Len(st.buf)]
                 ELSE Escaped(line[st.pos + 1])
            ELSE [st EXCEPT !.pos = @ + 1, !.buf = Append(@, rcv_byte)]
    IN  IF st.pos > Len(line)
        THEN [st EXCEPT !.done = TRUE, !.ret = Len(st.buf)]
        ELSE Byte(line[st.pos])

\* up to passes passes of the loop, passes a power of two
RECURSIVE recv_decode_loop(_, _, _)
recv_decode_loop(st, line, passes) ==
    IF st.done THEN st
    ELSE IF passes = 1 THEN recv_decode_step(st, line)
    ELSE recv_decode_loop(recv_decode_loop(st, line, passes \div 2), line, passes \div 2)

\* SlipUdpSerial::recv_decode_slip on the bytes the serial line holds: every
\* pass takes a byte or ends the loop, so 4096 passes end it on a line of up
\* to 4095 bytes
recv_decode_slip(line) == recv_decode_loop(DecodeStart, line, 4096)

\* datagrams handed to SlipUdpSerial::send before the model stops sending
MaxPackets == 1

\* the lengths sent: none, a few bytes, what fills rx_buffer but for one byte
\* and what fills it, the MTU and one byte more
SlipLengths ==
    { 0, 1, 2, RX_BUFFER_SIZE - NET_HEADERS_SIZE - 1, RX_BUFFER_SIZE - NET_HEADERS_SIZE,
      MTU, MTU + 1 }

\* the bytes sent: one byte all over, or the four SLIP bytes and 0 in turn
SlipFills == { << 0 >>, << SLIP_END >>, << SLIP_ESC >>, << SLIP_ESC_END >>,
               << SLIP_END, SLIP_ESC, SLIP_ESC_END, SLIP_ESC_ESC, 0 >> }

SlipPayloads ==
    { [i \in 1..n |-> fill[((i - 1) % Len(fill)) + 1]] : n \in SlipLengths, fill \in SlipFills }

\* 192.168.0.1, 10.0.0.2 and 192.168.219.192
SlipSource == [hi |-> 49320, lo |-> 1]
SlipDestinations == { [hi |-> 2560, lo |-> 2], [hi |-> 49320, lo |-> 56256] }
SlipPort == 12200

InitSlip ==
    /\ cache = [i \in 1..REPLY_CACHE_SIZE |-> EmptyReplyInfo]
    /\ now = 1
    /\ running = "serving"
    /\ fsys = InitialFs
    /\ items = << >>
    /\ conv = "RAM"
    /\ seen = 0
    /\ answered = [p \in 1..(NumPeers + REPLY_CACHE_SIZE) |-> NoRequest]
    /\ obs = [peer |-> 0, dgram |-> << >>, valid |-> FALSE, cksumflag |-> 0, hit |-> FALSE,
              fn |-> 0, ret |-> -1, sent |-> << >>, stored |-> << >>, had_entry |-> FALSE,
              prev |-> NoRequest, threw |-> FALSE, overflow |-> FALSE]
    /\ call = [op |-> "none", last_sent_packet_id |-> 0, line |-> << >>]
    /\ exit_flag = 0
    /\ pc = "test"
    /\ inbox = << >>

\* SlipUdpSerial::send(src_ip, dst_ip, src_port, dst_port, data, length): a
\* length above the MTU throws; otherwise the headers are built, the frame is
\* encoded into tx_buffer and written to the serial line, which takes all of
\* it or (the call throws then) all but its last byte.  A frame longer than
\* tx_buffer is written behind the buffer's end: the bytes reach the line as
\* encoded or the process dies, and its state is undefined from then on
SlipSend ==
    \E dst_ip \in SlipDestinations : \E data \in SlipPayloads :
    \E h \in { build_headers((call.last_sent_packet_id + 1) % 65536, SlipSource, dst_ip,
                             SlipPort, SlipPort, Len(data)) } :
    \E tx \in { encode_slip(h, data) } :
    \E written \in { Len(tx) - 1, Len(tx) } :
    \E outcome \in (IF Len(tx) > TX_BUFFER_SIZE THEN {"written", "died"} ELSE {"written"}) :
        /\ running = "serving"
        /\ call.line = << >>
        /\ call.last_sent_packet_id < MaxPackets
        /\ call' = IF Len(data) > MTU
                   THEN [op |-> "send", rejected |-> TRUE, threw |-> TRUE, data |-> data,
                         last_sent_packet_id |-> call.last_sent_packet_id,
                         line |-> call.line]
                   ELSE [op |-> "send", rejected |-> FALSE,
                         threw |-> written # Len(tx), data |-> data, headers |-> h,
                         tx_len |-> Len(tx), complete |-> written = Len(tx),
                         last_sent_packet_id |-> (call.last_sent_packet_id + 1) % 65536,
                         line |-> IF outcome = "died" THEN << >> ELSE SubSeq(tx, 1, written)]
        /\ running' = IF Len(data) <= MTU /\ Len(tx) > TX_BUFFER_SIZE
                      THEN "undefined" ELSE running
        /\ UNCHANGED <<cache, now, fsys, items, conv, seen, answered, obs, signals>>

\* SlipUdpSerial::recv_decode_slip reads the frame the line holds
SlipReceive ==
    \E r \in { recv_decode_slip(call.line) } :
        /\ running = "serving"
        /\ call.line # << >>
        /\ call' = [op |-> "recv_decode_slip", ret |-> r.ret, rx |-> r.buf,
                    data |-> call.data, headers |-> call.headers,
                    complete |-> call.complete,
                    last_sent_packet_id |-> call.last_sent_packet_id,
                    line |-> SubSeq(call.line, r.pos, Len(call.line))]
        /\ UNCHANGED <<cache, now, running, fsys, items, conv, seen, answered, obs,
                       signals>>

NextSlip == SlipSend \/ SlipReceive
SpecSlip == InitSlip /\ [][NextSlip]_vars

(* Properties                                                                *)

\* the last datagram was validated and carries the sequence number of the
\* request this peer was last answered for: a retransmission
Retransmitted == obs.valid /\ obs.prev.seq = obs.dgram[2]

\* a and b are the same packet but for the checksum flag (top bit of byte 8)
\* and the checksum field (bytes 9 and 10)
SameButChecksum(a, b) ==
    /\ Len(a) = Len(b)
    /\ \A i \in 1..Len(a) : i \notin {8, 9, 10} => a[i] = b[i]
    /\ Len(a) >= 8 => a[8] % 128 = b[8] % 128

\* no handler ran and a reply left: the reply came from the cache
SentFromCache == obs.valid /\ obs.fn = 0 /\ obs.sent # << >>

\* functions that change the filesystem
Mutating == {INT2F_REMOVE_DIR, INT2F_MAKE_DIR, INT2F_DELETE_FILE}

\* C1 as stated: a retransmitted request dispatches no handler and gets the
\* reply sent before (compared apart from checksum flag and field)
C1_Stated ==
    Retransmitted => obs.fn = 0 /\ SameButChecksum(obs.sent, obs.prev.reply)

\* C1: a retransmitted request dispatches no handler and gets the reply sent
\* before, apart from checksum flag and field, if the reply cache still has
\* an entry for the peer
C1_Retransmission ==
    Retransmitted /\ obs.had_entry
        => obs.fn = 0 /\ SameButChecksum(obs.sent, obs.prev.reply)

\* peer 1 retransmits after other peers were served and is answered from the cache
C1_Witness ==
    /\ Retransmitted /\ obs.had_entry /\ obs.peer = 1 /\ seen > 0
    /\ obs.fn = 0 /\ obs.sent # << >>

\* C2 as stated: a mutating request that was dispatched and answered is not
\* dispatched again when retried with its sequence number, whatever other
\* peers sent in between
C2_Stated ==
    Retransmitted /\ obs.prev.fn \in Mutating => obs.fn = 0

\* C2: a mutating request that was dispatched and answered is not dispatched
\* again when retried with its sequence number, as long as the reply cache
\* still has the peer's entry, which it has while fewer other peers than the
\* cache has entries were served
C2_NoSecondDispatch ==
    Retransmitted /\ obs.prev.fn \in Mutating /\ (obs.had_entry \/ seen < REPLY_CACHE_SIZE)
        => obs.fn = 0

\* MAKE_DIR is retried after 15 other peers were served and is not run again
C2_Witness ==
    /\ Retransmitted /\ obs.prev.fn = INT2F_MAKE_DIR /\ obs.peer = 1
    /\ seen = REPLY_CACHE_SIZE - 1 /\ obs.fn = 0 /\ obs.sent # << >>

\* the checksum flag of the request the stored reply was first sent for
FirstFlag == obs.prev.reply[8] \div 128

\* C3 as stated: on a cache hit the bytes sent are those of the first send
C3_Stated == SentFromCache => obs.sent = obs.prev.reply

\* C3: on a cache hit the bytes sent are those of the first send when the
\* request carries the checksum flag of the first request; otherwise they
\* differ from it in the checksum flag and the checksum field at most
C3_SameBytes ==
    SentFromCache =>
        /\ SameButChecksum(obs.sent, obs.prev.reply)
        /\ obs.cksumflag = FirstFlag => obs.sent = obs.prev.reply

\* a DISK_INFO reply with a checksum is sent again from the cache
C3_Witness ==
    /\ SentFromCache /\ obs.cksumflag = 1 /\ FirstFlag = 1
    /\ Len(obs.sent) > HDR_SIZE /\ obs.sent = obs.prev.reply

\* C4 as stated: no exception leaves process_request, the loop keeps serving
C4_Stated == running # "stopped"

\* C5 as stated: no reply is longer than the 1500 bytes of a reply packet
C5_Stated == obs.ret <= PACKET_SIZE /\ Len(obs.sent) <= PACKET_SIZE

\* path, made lexically normal, lies in the root of the drive
InsideRoot(path) == IsPrefix(root, Normalize(path, 1, << >>))

\* C6 as stated: every path in the handle table lies inside the drive's root
C6_Stated ==
    \A h \in 1..Len(items) : items[h].path # << >> => InsideRoot(items[h].path)

\* the advertised length: the low 15 bits of length_flags
Advertised(d) == from_little16(d, 7) % 32768

\* rotate_right_16(acc, 1)
RotateRight16(acc) == (acc \div 2) + 32768 * (acc % 2)

\* the BSD checksum of bytes i.. of d up to the advertised length, acc so far
RECURSIVE ChecksumFrom(_, _, _)
ChecksumFrom(d, i, acc) ==
    IF i > Advertised(d) THEN acc
    ELSE ChecksumFrom(d, i + 1, (RotateRight16(acc) + d[i]) % 65536)

\* the checksum step: the flag is set and the field is the checksum, or the
\* flag is clear and the field is the magic constant
ChecksumStepPasses(d) ==
    IF from_little16(d, 7) \div 32768 = 1
    THEN from_little16(d, 9) = ChecksumFrom(d, HDR_SIZE + 1, 0)
    ELSE from_little16(d, 9) = DRIVE_PROTO_MAGIC

\* the steps before the checksum step: header present, version, length
EarlierStepsPass(d) ==
    /\ Len(d) >= HDR_SIZE
    /\ d[1] = DRIVE_PROTO_VERSION
    /\ Advertised(d) >= HDR_SIZE
    /\ Advertised(d) <= Len(d)

\* C7 as stated: a datagram that fails a validation step gets no reply and
\* runs no handler
C7_Stated ==
    obs.peer # 0 /\ ~(EarlierStepsPass(obs.dgram) /\ ChecksumStepPasses(obs.dgram))
        => obs.sent = << >> /\ obs.fn = 0

\* the request names a drive index outside 2..25, a drive that is not
\* shared, or a function without a case
BadTarget(d) ==
    \/ d[4] % 32 < 2
    \/ d[4] % 32 > 25
    \/ d[4] % 32 \notin SharedDrives
    \/ d[3] \notin KnownFunctions

\* the stored reply of the peer answers the sequence number of the datagram
StoredAnswers == obs.stored # << >> /\ obs.stored[2] = obs.dgram[2]

\* C8: a validated request that misses the cache and names a bad drive or an
\* unsupported function gets no reply, runs no handler and leaves the peer's
\* cache entry with length 0
C8_SilentDrop ==
    obs.valid /\ ~StoredAnswers /\ BadTarget(obs.dgram)
        => /\ obs.sent = << >>
           /\ obs.fn = 0
           /\ EntryOf(cache, obs.peer) # 0
           /\ cache[EntryOf(cache, obs.peer)].len = 0

\* a request to a bad target arrives while the peer's entry holds the reply
\* to another sequence number; the entry is emptied
C8_Witness ==
    /\ obs.valid /\ BadTarget(obs.dgram) /\ obs.stored # << >> /\ ~StoredAnswers
    /\ obs.sent = << >> /\ cache[EntryOf(cache, obs.peer)].len = 0

\* C9: a datagram that passes the steps before the checksum step is accepted
\* exactly if, with the flag set, its checksum field is the BSD checksum of
\* the bytes after the field up to the advertised length or, with the flag
\* clear, the field is DRIVE_PROTO_MAGIC
C9_ChecksumStep ==
    obs.peer # 0 /\ EarlierStepsPass(obs.dgram)
        => (obs.valid <=> ChecksumStepPasses(obs.dgram))

\* a request with a body and a matching checksum is accepted
C9_Witness ==
    /\ obs.peer # 0 /\ EarlierStepsPass(obs.dgram) /\ obs.valid
    /\ obs.cksumflag = 1 /\ Advertised(obs.dgram) > HDR_SIZE

\* C10 as stated: the low 15 bits of a reply's length_flags are its length,
\* and flag and checksum field follow the request's flag
C10_Stated ==
    obs.sent # << >> =>
        /\ Advertised(obs.sent) = Len(obs.sent)
        /\ from_little16(obs.sent, 7) \div 32768 = obs.cksumflag
        /\ obs.cksumflag = 0 => from_little16(obs.sent, 9) = DRIVE_PROTO_MAGIC
        /\ obs.cksumflag = 1 =>
               from_little16(obs.sent, 9) = ChecksumFrom(obs.sent, HDR_SIZE + 1, 0)

\* C11: every reply sent carries the version, sequence, function and drive
\* bytes of the datagram it answers
C11_Stated ==
    obs.sent # << >> => \A i \in 1..4 : obs.sent[i] = obs.dgram[i]

\* the error codes a reply reports a failure with
ErrorCodes == {DOS_EXTERR_FILE_NOT_FOUND, DOS_EXTERR_PATH_NOT_FOUND, DOS_EXTERR_ACCESS_DENIED,
               DOS_EXTERR_WRITE_FAULT, DOS_EXTERR_NO_MORE_FILES}

\* the drive call that the handler of datagram d makes fails (throws or
\* returns an error value) in the state given
DriveCallFails(d, its, fs, cv, t) ==
    LET data == Bytes(d, HDR_SIZE + 1, validate(d).len)
        path == create_relative_path(data)
        open == create_server_path(its, fs, cv, t,
                                   create_relative_path(Bytes(data, 7, Len(data))), FALSE)
    IN  CASE d[3] = INT2F_MAKE_DIR ->
                Len(data) >= 1 /\ drive_make_dir(its, fs, cv, t, path).exc # "none"
          [] d[3] = INT2F_REMOVE_DIR ->
                Len(data) >= 1 /\ drive_delete_dir(its, fs, cv, t, path).exc # "none"
          [] d[3] = INT2F_CLOSE_FILE ->
                Len(data) = 2 /\ drive_get_handle_path(its, t, from_little16(data, 1)).threw
          [] d[3] = INT2F_READ_FILE ->
                Len(data) = 8
                /\ drive_read_file(its, fs, t, from_little16(data, 5),
                                   from_little32(data, 1), from_little16(data, 7)).threw
          [] d[3] = INT2F_DISK_INFO -> drive_space_info(fs).threw
          [] d[3] = INT2F_DELETE_FILE ->
                Len(data) >= 1 /\ drive_delete_files(its, fs, cv, t, path).exc # "none"
          [] d[3] = INT2F_OPEN_FILE ->
                Len(data) > 6
                /\ (open.threw \/ get_path_dos_properties(fs, open.path).attrs = FAT_ERROR_ATTR)
          [] OTHER -> FALSE

\* C12: when the drive call of a dispatched request fails, a reply is sent
\* and its ax is one of the error codes, never NO_ERROR
C12_Stated ==
    [][(running = "serving" /\ obs'.valid /\ ~obs'.hit /\ obs'.fn # 0
        /\ DriveCallFails(obs'.dgram, items, fsys, conv, now))
       => (obs'.sent # << >> /\ from_little16(obs'.sent, 5) \in ErrorCodes)]_vars

\* slot h (1-based) of the table its holds the path p
Holds(its, h, p) == h \in 1..Len(its) /\ its[h].path = p

\* C13: no two slots of the handle table hold the same non-empty path, and
\* get_handle(p) returns the handle of the slot that holds p whenever a slot
\* holds it (p was given a handle and has not been replaced since)
C13_StableHandles ==
    /\ \A i, j \in 1..Len(items) :
          (i # j /\ items[i].path # << >>) => items[i].path # items[j].path
    /\ call.op = "get_handle" =>
          /\ Holds(items, call.handle + 1, call.path)
          /\ \A h \in 1..Len(call.before) :
                Holds(call.before, h, call.path) => call.handle = h - 1

\* get_handle was called for a path that the second slot of a full table held
C13_Witness ==
    /\ call.op = "get_handle"
    /\ Len(call.before) = HandleCap
    /\ Holds(call.before, 2, call.path)
    /\ call.handle = 1

\* C14: get_handle never returns the number of slots the table may have
\* (0xFFFF for MAX_HANDLE_COUNT = 65535) or more, and the table never has
\* more slots than that
C14_HandleRange ==
    /\ MAX_HANDLE_COUNT = 65535
    /\ Len(items) <= HandleCap
    /\ call.op = "get_handle" => call.handle \in 0..(HandleCap - 1)

\* get_handle was called on a full table for a path no slot held: the oldest
\* slot was replaced
C14_Witness ==
    /\ call.op = "get_handle"
    /\ Len(call.before) = HandleCap
    /\ \A h \in 1..HandleCap : ~Holds(call.before, h, call.path)
    /\ Holds(items, call.handle + 1, call.path)

\* the FCB names of the entries of a listing are pairwise distinct
DistinctFcbNames(list) ==
    \A i, j \in 1..Len(list) : i # j => list[i].fcb_name # list[j].fcb_name

\* C15: in every directory listing built by create_directory_list, in either
\* name-conversion mode, the FCB names of the entries are pairwise distinct
C15_Stated == \A h \in 1..Len(items) : DistinctFcbNames(items[h].directory_list)

\* C16: a search that starts with nth = 0 and feeds each returned nth into
\* the next call makes progress and ends: a successful call returns the
\* entry at index nth - 1, which matches the mask, with nth greater than the
\* nth passed in, and the successful calls of a search never outnumber the
\* entries of the listing
C16_SearchEnds ==
    (call.op = "find_file" /\ call.found) =>
        LET list == items[call.handle + 1].directory_list
        IN  /\ call.nth > call.nth_in
            /\ call.nth <= Len(list)
            /\ call.props = list[call.nth]
            /\ match_fcb_name_to_mask(call.tmpl, call.props.fcb_name)
            /\ call.count <= call.nth
            /\ call.count <= Len(list)

\* a search found two entries and then came to its end
C16_Witness ==
    call.op = "find_file" /\ ~call.found /\ call.nth_in > 0 /\ call.count >= 2

\* the directories whose content differs between the filesystems fs1 and fs2
ChangedDirectories(fs1, fs2) ==
    LET all1 == fs1.dirs \cup DOMAIN fs1.files
        all2 == fs2.dirs \cup DOMAIN fs2.files
    IN  { parent_path(q) : q \in (all1 \ all2) \cup (all2 \ all1) }

\* the cached listing of item is empty or what a scan of fs gives now
ClearedOrRebuilt(item, fs, cv, t) ==
    \/ item.directory_list = << >>
    \/ item.directory_list = create_directory_list(item, fs, cv, t).item.directory_list

\* the last datagram was dispatched to function fn and answered with NO_ERROR
Succeeded(o, fns) ==
    /\ o.valid /\ ~o.hit /\ o.fn \in fns
    /\ o.sent # << >> /\ from_little16(o.sent, 5) = DOS_EXTERR_NO_ERROR

\* C17: after every successful directory-changing operation the cached
\* listing of each directory whose content changed is cleared or rebuilt
C17_Stated ==
    [][Succeeded(obs', Mutating) =>
         \A h \in 1..Len(items') :
            items'[h].path \in ChangedDirectories(fsys, fsys')
               => ClearedOrRebuilt(items'[h], fsys', conv, now)]_vars

\* C18: whenever a termination signal is delivered, no datagram that
\* arrives after it is dispatched: the datagram the loop is serving arrived
\* before the signal
C18_Stated == pc = "process" => ~Head(inbox).after_signal

\* C19: the advertised length validation uses is the low 15 bits of
\* length_flags: a datagram with a header of the right version passes the
\* length step if and only if header size <= (length_flags & 0x7FFF) <=
\* received length, and the request is then processed with exactly that many
\* bytes
C19_Stated ==
    (obs.peer # 0 /\ Len(obs.dgram) >= HDR_SIZE /\ obs.dgram[1] = DRIVE_PROTO_VERSION) =>
        /\ obs.valid => /\ HDR_SIZE <= Advertised(obs.dgram)
                        /\ Advertised(obs.dgram) <= Len(obs.dgram)
                        /\ validate(obs.dgram).len = Advertised(obs.dgram)
        /\ (EarlierStepsPass(obs.dgram) /\ ChecksumStepPasses(obs.dgram)) => obs.valid

\* the last datagram was a FIND_FIRST with a search template that reached
\* its handler
FindFirstServed(o) ==
    o.valid /\ ~o.hit /\ o.fn = INT2F_FIND_FIRST /\ Len(o.dgram) > HDR_SIZE + 1

\* the directory a FIND_FIRST datagram searches, as a path below the root
SearchDirectory(d) ==
    root \o parent_path(create_relative_path(Bytes(d, HDR_SIZE + 2, Len(d))))

\* C20: every FIND_FIRST is answered, and when it returns no entry (a reply
\* of a header and a drive_proto_find_reply with ax NO_ERROR) the reply is a
\* header alone with ax NO_MORE_FILES; a search directory that is missing or
\* is no directory always gives NO_MORE_FILES
C20_NoMoreFiles ==
    FindFirstServed(obs) =>
        /\ obs.sent # << >>
        /\ \/ Len(obs.sent) = HDR_SIZE + 24
              /\ from_little16(obs.sent, 5) = DOS_EXTERR_NO_ERROR
           \/ Len(obs.sent) = HDR_SIZE
              /\ from_little16(obs.sent, 5) = DOS_EXTERR_NO_MORE_FILES
        /\ ~fs_is_directory(fsys, SearchDirectory(obs.dgram))
              => from_little16(obs.sent, 5) = DOS_EXTERR_NO_MORE_FILES

\* a FIND_FIRST in a directory that does not exist was answered
C20_Witness ==
    /\ FindFirstServed(obs)
    /\ ~fs_exists(fsys, SearchDirectory(obs.dgram))
    /\ obs.sent # << >>
    /\ from_little16(obs.sent, 5) = DOS_EXTERR_NO_MORE_FILES


\* an EXTENDED_OPEN_CREATE request that reached its handler with a path
OpenCreateServed(o) ==
    /\ o.valid /\ ~o.hit /\ o.fn = INT2F_EXTENDED_OPEN_CREATE_FILE
    /\ Len(o.dgram) > HDR_SIZE + 6

\* the target of an open or create datagram, its action code, and the ax
\* and the result code of the reply
OpenTarget(d) == root \o create_relative_path(Bytes(d, HDR_SIZE + 7, Len(d)))
OpenActionCode(d) == from_little16(d, HDR_SIZE + 3)
ReplyAx(sent) == IF sent = << >> THEN -1 ELSE from_little16(sent, 5)
ReplyResultCode(sent) ==
    IF Len(sent) < HDR_SIZE + 25 THEN -1 ELSE from_little16(sent, HDR_SIZE + 23)

\* the decision table of EXTENDED_OPEN_CREATE between the file systems
\* before and after the request
OpenCreateTable(pre, post, d, sent) ==
    LET target == OpenTarget(d)
        action_code == OpenActionCode(d)
        Opened(result_code) ==
            ReplyAx(sent) = DOS_EXTERR_NO_ERROR /\ ReplyResultCode(sent) = result_code
        NotFound == ReplyAx(sent) = DOS_EXTERR_FILE_NOT_FOUND
    IN  IF target \notin DOMAIN pre.files /\ target \notin pre.dirs
        THEN IF if_not_exist(action_code) = ACTION_CODE_CREATE_IF_NOT_EXIST
             THEN /\ target \in DOMAIN post.files
                  /\ Opened(DOS_EXT_OPEN_FILE_RESULT_CODE_CREATED)
             ELSE NotFound /\ post = pre
        ELSE IF target \in pre.dirs THEN NotFound
        ELSE IF if_exist(action_code) = ACTION_CODE_OPEN_IF_EXIST
        THEN Opened(DOS_EXT_OPEN_FILE_RESULT_CODE_OPENED) /\ post = pre
        ELSE IF if_exist(action_code) = ACTION_CODE_REPLACE_IF_EXIST
        THEN /\ target \in DOMAIN post.files /\ post.files[target] = 0
             /\ Opened(DOS_EXT_OPEN_FILE_RESULT_CODE_TRUNCATED)
        ELSE NotFound /\ post = pre

SeekServed(o) ==
    /\ o.valid /\ ~o.hit /\ o.fn = INT2F_SEEK_FROM_END
    /\ Len(o.dgram) = HDR_SIZE + 6

\* the offset from the end a SEEK_FROM_END datagram carries, as the signed
\* 32-bit number its two words spell, and the handle
SeekOffset(d) ==
    LET hi == from_little16(d, HDR_SIZE + 1)
        lo == from_little16(d, HDR_SIZE + 3)
    IN  (IF hi >= 32768 THEN hi - 65536 ELSE hi) * 65536 + lo
SeekHandle(d) == from_little16(d, HDR_SIZE + 5)

\* the position a SEEK_FROM_END reply carries (below 2^31)
ReplyPosition(sent) ==
    from_little16(sent, HDR_SIZE + 1) + 65536 * from_little16(sent, HDR_SIZE + 3)

\* the size of what handle h stands for
SizeOf(its, fs, h) == get_path_dos_properties(fs, its[h + 1].path).props.size

Min(a, b) == IF a < b THEN a ELSE b
Max(a, b) == IF a > b THEN a ELSE b

\* C22: a SEEK_FROM_END on a valid handle of a file of size S answers the
\* position P = max(0, S + min(offset, 0)), 0 <= P <= S, and no step of the
\* computation leaves the range of int32_t
C22_Position ==
    [][(SeekServed(obs') /\ valid_handle(items, SeekHandle(obs'.dgram))) =>
         LET S == SizeOf(items, fsys, SeekHandle(obs'.dgram))
             offset == SeekOffset(obs'.dgram)
             P == ReplyPosition(obs'.sent)
         IN  /\ ReplyAx(obs'.sent) = DOS_EXTERR_NO_ERROR
             /\ Len(obs'.sent) = HDR_SIZE + 4
             /\ P = Max(0, S + Min(offset, 0))
             /\ 0 <= P /\ P <= S
             /\ ~seek_position(from_little16(obs'.dgram, HDR_SIZE + 1),
                               from_little16(obs'.dgram, HDR_SIZE + 3), S).overflow]_vars

\* a seek by -1 from the end of a file of the largest size was answered
\* with its size less one
C22_Witness ==
    /\ SeekServed(obs) /\ valid_handle(items, SeekHandle(obs.dgram))
    /\ SizeOf(items, fsys, SeekHandle(obs.dgram)) = INT32_MAX
    /\ SeekOffset(obs.dgram) = -1
    /\ ReplyPosition(obs.sent) = INT32_MAX - 1


\* a DISK_INFO request that reached its handler
DiskInfoServed(o) == o.valid /\ ~o.hit /\ o.fn = INT2F_DISK_INFO

\* min(b, 2^31 - 1) >> 15 for a size of kib KiB
Clusters(kib) == Min(kib, 2097151) \div 32

\* C23: DISK_INFO answers ax = 1, bytes_per_sector = 32768, and total and
\* available clusters min(size, 2^31 - 1) >> 15, which are at most 65535
\* and arrive whole in their 16-bit fields
C23_Clusters ==
    DiskInfoServed(obs) =>
        /\ Len(obs.sent) = HDR_SIZE + 6
        /\ ReplyAx(obs.sent) = 1
        /\ from_little16(obs.sent, HDR_SIZE + 3) = 32768
        /\ from_little16(obs.sent, HDR_SIZE + 1) = Clusters(fsys.capacity)
        /\ from_little16(obs.sent, HDR_SIZE + 5) = Clusters(fsys.free)
        /\ Clusters(fsys.capacity) <= 65535 /\ Clusters(fsys.free) <= 65535

\* a filesystem of 3 GiB with 2 GiB free was reported as 65535 clusters
\* with 65535 available
C23_Witness ==
    /\ DiskInfoServed(obs)
    /\ fsys.capacity = 3145728 /\ fsys.free = 2097152
    /\ from_little16(obs.sent, HDR_SIZE + 1) = 65535
    /\ from_little16(obs.sent, HDR_SIZE + 5) = 65535


\* get_handle was called for a path that no slot held
Missed(c) ==
    /\ c.op = "get_handle"
    /\ \A h \in 1..Len(c.before) : ~Holds(c.before, h, c.path)

\* the slots (1-based) of a table that have an empty path
EmptySlots(its) == { h \in 1..Len(its) : its[h].path = << >> }

\* C24: on a miss get_handle uses the lowest slot with an empty path; else,
\* below the largest table size, a slot it appends; else the slot with the
\* smallest last-used time, which loses its listing.  The other slots keep
\* their paths and the slot used gets the path asked for and the time of
\* the call
C24_SlotChoice ==
    Missed(call) =>
        LET before == call.before
            slot == call.handle + 1
        IN  /\ IF EmptySlots(before) # {}
               THEN /\ slot \in EmptySlots(before)
                    /\ \A h \in EmptySlots(before) : slot <= h
                    /\ Len(items) = Len(before)
               ELSE IF Len(before) < HandleCap
               THEN slot = Len(before) + 1 /\ Len(items) = Len(before) + 1
               ELSE /\ slot \in 1..Len(before)
                    /\ \A h \in 1..Len(before) :
                          before[slot].last_used_time <= before[h].last_used_time
                    /\ items[slot].directory_list = << >>
                    /\ Len(items) = Len(before)
            /\ \A h \in 1..Len(before) : h # slot => items[h].path = before[h].path
            /\ items[slot].path = call.path
            /\ items[slot].last_used_time = call.time

\* a miss on a full table whose second slot was older than the first: the
\* second slot was replaced
C24_Witness ==
    /\ Missed(call)
    /\ Len(call.before) = HandleCap
    /\ call.before[2].last_used_time < call.before[1].last_used_time
    /\ call.handle = 1
    /\ items[2].path = call.path /\ items[1].path = call.before[1].path


\* slot h (1-based) holds a listing last used more than LISTING_MAX_AGE
\* seconds before time t
StaleListing(its, h, t) ==
    its[h].directory_list # << >> /\ t - its[h].last_used_time > LISTING_MAX_AGE

\* C25 as stated: after every get_handle call, hit or miss, no slot holds a
\* listing whose last-used time is more than 3600 s before the call
C25_Stated ==
    call.op = "get_handle" =>
        \A h \in 1..Len(items) : ~StaleListing(items, h, call.time)

\* C25: after a get_handle call no slot that the loop reached holds such a
\* listing: every slot after a miss, the slots up to the one found after a
\* hit
C25_ScannedSlots ==
    call.op = "get_handle" =>
        \A h \in 1..Len(items) :
            (Missed(call) \/ h <= call.handle + 1) => ~StaleListing(items, h, call.time)

\* a get_handle call after more than an hour found its path in the second
\* slot; the first slot had a listing that old and has none any more
C25_Witness ==
    /\ call.op = "get_handle" /\ ~Missed(call)
    /\ call.handle = 1
    /\ StaleListing(call.before, 1, call.time)
    /\ items[1].directory_list = << >>


\* handle h is not below the size of the table or its slot has an empty path
InvalidHandle(its, h) == ~(h < Len(its)) \/ its[h + 1].path = << >>

\* C26: get_item fails exactly for a handle that is not below the table
\* size or whose slot has an empty path (get_handle_path fails for no other
\* reason); in that case get_handle_path, read_file, write_file,
\* get_file_size and find_file all fail and no slot and no file changes
C26_InvalidHandle ==
    call.op \in HandleOps =>
        /\ call.op = "get_handle_path" =>
              (call.threw <=> InvalidHandle(call.before, call.handle))
        /\ InvalidHandle(call.before, call.handle) =>
              call.threw /\ items = call.before /\ fsys = call.fsys_before

\* write_file was called with a handle past the end of a table with slots
\* and failed
C26_Witness ==
    /\ call.op = "write_file"
    /\ call.before # << >>
    /\ InvalidHandle(call.before, call.handle)
    /\ call.threw /\ items = call.before


\* the entries of the reply cache c that have the address of a peer
EntriesOf(c, peer) ==
    { i \in 1..Len(c) : c[i].ipv4_addr = peer.ip /\ c[i].udp_port = peer.port }

\* C27: get_reply_info returns the entry with the address of the peer when
\* there is one, and changes no entry; otherwise it takes an entry whose
\* timestamp is the smallest of all, sets its length to 0 and its address to
\* the peer's, and leaves the other entries alone.  The datagram is then
\* processed on that entry: no other entry changes in the step
C27_Lookup ==
    [][obs'.valid =>
         \E peer \in {Peer(obs'.peer)} :
         \E g \in {get_reply_info(cache, peer.ip, peer.port)} :
         \E mine \in {EntriesOf(cache, peer)} :
             /\ g.idx \in 1..REPLY_CACHE_SIZE
             /\ mine # {} => g.idx \in mine /\ g.items = cache
             /\ mine = {} =>
                   /\ \A i \in 1..REPLY_CACHE_SIZE :
                         cache[g.idx].timestamp <= cache[i].timestamp
                   /\ g.items = [cache EXCEPT ![g.idx].len = 0,
                                              ![g.idx].ipv4_addr = peer.ip,
                                              ![g.idx].udp_port = peer.port]
             /\ \A i \in 1..REPLY_CACHE_SIZE : i # g.idx => cache'[i] = cache[i]
             /\ EntriesOf(cache', peer) = {g.idx}]_vars

\* a peer without an entry was served from a cache whose entries all had an
\* address, and a peer served before has no entry any more
C27_Witness ==
    /\ obs.valid /\ ~obs.had_entry
    /\ \A i \in 1..REPLY_CACHE_SIZE : cache[i].ipv4_addr # 0
    /\ \E p \in 1..(NumPeers + REPLY_CACHE_SIZE) :
          answered[p] # NoRequest /\ EntryOf(cache, p) = 0


\* C28 as stated: after each datagram that the loop has processed to its
\* end, every entry of the reply cache that has the address of a peer has a
\* length above 0 exactly if the last validated request of that peer was
\* answered, and then the entry holds the bytes last sent to the peer, all
\* of them
C28_Stated ==
    running # "stopped" =>
        \A p \in 1..(NumPeers + REPLY_CACHE_SIZE) :
            \A e \in EntriesOf(cache, Peer(p)) :
                /\ cache[e].len > 0 <=> answered[p] # NoRequest
                /\ cache[e].len > 0 =>
                      /\ cache[e].len <= Len(cache[e].packet)
                      /\ Bytes(cache[e].packet, 1, cache[e].len) = answered[p].last

\* the same as long as every reply has fit into the packet of its entry;
\* the length is 0 after a request that was dropped
C28_WithinBuffer ==
    running = "serving" =>
        \A p \in 1..(NumPeers + REPLY_CACHE_SIZE) :
            \A e \in EntriesOf(cache, Peer(p)) :
                /\ cache[e].len > 0 <=> answered[p] # NoRequest
                /\ cache[e].len > 0 =>
                      Bytes(cache[e].packet, 1, cache[e].len) = answered[p].last
                /\ (obs.peer = p /\ obs.valid /\ obs.sent = << >>) => cache[e].len = 0

\* C29: no two entries of the reply cache with a length above 0 have the
\* same address and port
C29_OneEntry ==
    \A i, j \in 1..REPLY_CACHE_SIZE :
        (i # j /\ cache[i].len > 0 /\ cache[j].len > 0) =>
            ~(cache[i].ipv4_addr = cache[j].ipv4_addr /\ cache[i].udp_port = cache[j].udp_port)

\* every entry holds a reply and the peer served last was answered from the
\* one entry with its address
C29_Witness ==
    /\ \A i \in 1..REPLY_CACHE_SIZE : cache[i].len > 0
    /\ obs.valid /\ obs.hit
    /\ Cardinality(EntriesOf(cache, Peer(obs.peer))) = 1


\* the FCB names of the entries from..Len(list) of a listing
ListedFcbNames(list, from) == { list[i].fcb_name : i \in from..Len(list) }

\* C30 as stated: a non-empty listing and the fcb_names set of its item
\* hold the same FCB names, those of "." and ".." included
C30_Stated ==
    \A h \in 1..Len(items) :
        items[h].directory_list # << >> =>
            items[h].fcb_names = ListedFcbNames(items[h].directory_list, 1)

\* C30: with name conversion the fcb_names set of an item with a non-empty
\* listing holds exactly the FCB names of the entries after "." and "..",
\* which are the first two entries and are not in the set; without name
\* conversion the set is empty
C30_Names ==
    \A h \in 1..Len(items) :
        items[h].directory_list # << >> =>
            /\ Len(items[h].directory_list) > 2
            /\ items[h].directory_list[1].fcb_name = short_name_to_fcb(NAME_DOT)
            /\ items[h].directory_list[2].fcb_name = short_name_to_fcb(NAME_DOTDOT)
            /\ items[h].fcb_names =
                  IF conv = "OFF" THEN {} ELSE ListedFcbNames(items[h].directory_list, 3)
            /\ conv # "OFF" => short_name_to_fcb(NAME_DOT) \notin items[h].fcb_names
                               /\ short_name_to_fcb(NAME_DOTDOT) \notin items[h].fcb_names

\* with name conversion a listing of ".", ".." and two names was built: the
\* set holds the two FCB names given to them
C30_Witness ==
    /\ conv = "RAM"
    /\ \E h \in 1..Len(items) :
          /\ Len(items[h].directory_list) = 4
          /\ Cardinality(items[h].fcb_names) = 2
          /\ items[h].fcb_names = ListedFcbNames(items[h].directory_list, 3)

\* the sanitized base and extension of a long name
SanitizedBase(long_name) ==
    sanitize_short_name(IF find_last_of_dot(long_name) = 0 THEN long_name
                        ELSE Bytes(long_name, 1, find_last_of_dot(long_name) - 1), 8)

SanitizedExt(long_name) ==
    sanitize_short_name(IF find_last_of_dot(long_name) = 0 THEN << >>
                        ELSE Bytes(long_name, find_last_of_dot(long_name) + 1,
                                   Len(long_name)), 3)

\* the collision rule for the call c with ~1 .. ~last as the suffixes tried:
\* the sanitized name itself when it is not shortened and not in the set,
\* otherwise the candidate of the smallest N in 1..last that is not in the
\* set; the accepted name is inserted; the call fails exactly when all
\* candidates are in the set, and then the set is left as it was
CollisionRule(c, last) ==
    LET Rule(b, e) ==
            LET Cand(n) == Candidate(Take(b.buf, b.len), Take(e.buf, e.len), n)
            IN  IF ~b.shortened /\ ~e.shortened /\ (b.buf \o e.buf) \notin c.before
                THEN c.ok /\ c.fcb = b.buf \o e.buf /\ c.used = c.before \cup {c.fcb}
                ELSE IF \E n \in 1..last : Cand(n) \notin c.before
                THEN /\ c.ok
                     /\ \E n \in 1..last :
                           /\ Cand(n) \notin c.before
                           /\ \A m \in 1..(n - 1) : Cand(m) \in c.before
                           /\ c.fcb = Cand(n)
                     /\ c.used = c.before \cup {c.fcb}
                ELSE ~c.ok /\ c.used = c.before
    IN  Rule(SanitizedBase(c.long_name), SanitizedExt(c.long_name))

\* C31 as stated: file_name_to_83 accepts a sanitized name that is not
\* shortened and not yet in used_names unchanged, otherwise the candidate of
\* the smallest N in 1..9999 that is not in used_names; it inserts the
\* accepted name and fails only when the candidates of all N in 1..9999 are
\* in used_names
C31_Stated ==
    call.op = "file_name_to_83" => CollisionRule(call, 9999)

\* what the loop "for (counter = 1; counter < 9999; ++counter)" does: the
\* same rule with the candidates ~1 .. ~9998
C31_UpTo9998 ==
    call.op = "file_name_to_83" => CollisionRule(call, 9998)

\* the call failed although ~9999 was free
C31_Failed ==
    /\ call.op = "file_name_to_83"
    /\ ~call.ok
    /\ Candidate(<<65>>, << >>, 9999) \notin call.before

\* the listing create_server_path looks a component up in, for the parent
\* directory: the one the handle table its holds for it, unless that is
\* empty or a new listing is asked for; then the one built from the directory
ParentListing(its, fs, t, create, parent) ==
    LET Held(hits) ==
            IF hits = {} THEN << >>
            ELSE its[CHOOSE h \in hits : \A j \in hits : h <= j].directory_list
        Used(held) ==
            IF create \/ held = << >>
            THEN create_directory_list([EmptyItem EXCEPT !.path = parent],
                                       fs, "RAM", t).item.directory_list
            ELSE held
    IN  Used(Held({ h \in 1..Len(its) : its[h].path = parent }))

\* the server name of the first entry of a listing whose FCB name is that of
\* the client's component; empty when no entry matches
MatchedName(listing, component) ==
    LET Name(hits) ==
            IF hits = {} THEN << >>
            ELSE listing[CHOOSE k \in hits : \A j \in hits : k <= j].server_name
    IN  Name({ k \in 1..Len(listing) :
                 listing[k].fcb_name = short_name_to_fcb(component) })

\* the client path resolved component by component from component k on,
\* below the server path reached so far: the server path of the components
\* that match and the index of the first component without a match (0 when
\* every component matches)
RECURSIVE Resolved(_, _, _, _, _, _, _)
Resolved(its, fs, t, create, client_path, k, server_path) ==
    LET Go(name) ==
            IF name = << >> THEN [path |-> server_path, missed |-> k]
            ELSE Resolved(its, fs, t, create, client_path, k + 1,
                          Append(server_path, name))
    IN  IF k > Len(client_path) THEN [path |-> server_path, missed |-> 0]
        ELSE Go(MatchedName(ParentListing(its, fs, t, create, server_path),
                            client_path[k]))

\* C32: with name conversion RAM create_server_path returns (root, true) for
\* the empty client path; the root joined with the matched server names and
\* exists = true when every component matches an FCB name of its parent's
\* listing; the resolved parent joined with the client's last component
\* unchanged and exists = false when only the last component has no match;
\* and it throws, returning no path, when a component before the last has no
\* match
C32_Resolution ==
    (call.op = "create_server_path" /\ conv = "RAM") =>
        LET Agrees(r) ==
                IF call.client_path = << >>
                THEN ~call.threw /\ call.exist /\ call.path = root
                ELSE IF r.missed = 0
                THEN ~call.threw /\ call.exist /\ call.path = r.path
                ELSE IF r.missed = Len(call.client_path)
                THEN /\ ~call.threw
                     /\ ~call.exist
                     /\ call.path = Append(r.path, filename(call.client_path))
                ELSE call.threw
        IN  Agrees(Resolved(call.before, call.fsys_before, now, call.create,
                            call.client_path, 1, root))

\* d/e/x was resolved to d/E/x: d and e matched the server names d and E,
\* x matched nothing
C32_Witness ==
    /\ call.op = "create_server_path"
    /\ conv = "RAM"
    /\ call.client_path = << <<100>>, <<101>>, <<120>> >>
    /\ ~call.threw /\ ~call.exist
    /\ call.path = root \o << <<100>>, <<69>>, <<120>> >>

\* the listing starts with the entries "." and ".."
StartsWithDots(list) ==
    /\ Len(list) >= 2
    /\ list[1].fcb_name = short_name_to_fcb(NAME_DOT)
    /\ list[2].fcb_name = short_name_to_fcb(NAME_DOTDOT)

\* the last call was a find_file that built the listing of an existing directory
ListingBuilt ==
    /\ call.op = "find_file"
    /\ call.nth_in = 0
    /\ fs_is_directory(fsys, items[call.handle + 1].path)

\* the directory of the handle of the last call is the drive root
SearchInRoot == stat(fsys, items[call.handle + 1].path).path = stat(fsys, root).path

\* find_file returns "." and ".." in a directory that is not the root (a
\* search for all names with the DIRECTORY attribute returns "." first and
\* ".." when it goes on) and never in the root
DotsOutsideRoot ==
    /\ (call.found /\ SearchInRoot) => call.props.fcb_name[1] # 46
    /\ (~SearchInRoot /\ call.tmpl = [i \in 1..11 |-> 63] /\ call.attr = FAT_DIRECTORY
        /\ call.nth_in <= 1) =>
            /\ call.found
            /\ call.nth = call.nth_in + 1
            /\ call.props.fcb_name = short_name_to_fcb(IF call.nth_in = 0 THEN NAME_DOT
                                                       ELSE NAME_DOTDOT)

\* C33 as stated: every listing create_directory_list builds for an existing
\* directory starts with "." and "..", also when the directory holds no
\* entry, and find_file skips the two exactly when the directory of the
\* handle is the drive root, so that a search in any other directory returns
\* them
C33_Stated ==
    ListingBuilt =>
        /\ StartsWithDots(items[call.handle + 1].directory_list)
        /\ DotsOutsideRoot

\* the same for directories that hold at least one entry
C33_NotEmpty ==
    (ListingBuilt /\ directory_iterator(fsys, items[call.handle + 1].path) # << >>) =>
        /\ StartsWithDots(items[call.handle + 1].directory_list)
        /\ DotsOutsideRoot

\* a search for all names in the empty directory d: the listing built is
\* empty and nothing is found
C33_EmptyDirectory ==
    /\ ListingBuilt
    /\ ~SearchInRoot
    /\ call.tmpl = [i \in 1..11 |-> 63] /\ call.attr = FAT_DIRECTORY
    /\ items[call.handle + 1].directory_list = << >>
    /\ ~call.found

\* the DOS attribute filter: with the filter byte VOLUME the entries with the
\* VOLUME bit; otherwise the entries whose HIDDEN, SYSTEM and DIRECTORY bits
\* are all in the filter, whatever their READ-ONLY and ARCHIVE bits
AttrPasses(attrs, filter) ==
    IF filter = FAT_VOLUME THEN Bit(attrs, FAT_VOLUME) = 1
    ELSE \A b \in {FAT_HIDDEN, FAT_SYSTEM, FAT_DIRECTORY} :
            Bit(attrs, b) = 1 => Bit(filter, b) = 1

\* the last find_file call returned the first entry from nth_in on among the
\* entries (0-based) that match the mask and pass the attribute filter, the
\* entries in skipped left aside, and returned nothing when there is none
ReturnsFirst(list, skipped) ==
    LET First(E) ==
            IF E = {} THEN ~call.found
            ELSE /\ call.found
                 /\ call.nth = 1 + CHOOSE k \in E : \A j \in E : k <= j
                 /\ call.props = list[call.nth]
    IN  First({ k \in call.nth_in..(Len(list) - 1) :
                  /\ k \notin skipped
                  /\ match_fcb_name_to_mask(call.tmpl, list[k + 1].fcb_name)
                  /\ AttrPasses(list[k + 1].attrs, call.attr) })

\* C34 as stated: find_file applies the attribute filter to every entry that
\* matches the FCB mask: an entry is returned if and only if it passes
C34_Stated ==
    call.op = "find_file" =>
        ReturnsFirst(items[call.handle + 1].directory_list, {})

\* C34: find_file applies the attribute filter to every entry that matches
\* the FCB mask, except "." and ".." in the drive root, which are never
\* returned: with the filter byte VOLUME only entries with the VOLUME bit
\* are returned, otherwise an entry is returned if and only if each of its
\* HIDDEN, SYSTEM and DIRECTORY bits is set in the filter, whatever its
\* READ-ONLY and ARCHIVE bits
C34_Filter ==
    call.op = "find_file" =>
        ReturnsFirst(items[call.handle + 1].directory_list,
                     IF SearchInRoot
                     THEN { k \in 0..(Len(items[call.handle + 1].directory_list) - 1) :
                              items[call.handle + 1].directory_list[k + 1].fcb_name[1] = 46 }
                     ELSE {})

\* a search in d with the filter HIDDEN went on behind the third file and
\* returned the read-only, hidden file d with ARCHIVE set
C34_Witness ==
    /\ call.op = "find_file"
    /\ is_on_fat(fsys)
    /\ ~SearchInRoot
    /\ call.attr = FAT_HIDDEN
    /\ call.nth_in = 5
    /\ call.found
    /\ call.props.attrs = FAT_RO + FAT_HIDDEN + FAT_ARCHIVE

\* a DELETE_FILE request that reached its handler with a path
DeleteServed(o) ==
    /\ o.valid /\ ~o.hit /\ o.fn = INT2F_DELETE_FILE
    /\ Len(o.dgram) > HDR_SIZE

\* the client path of a DELETE_FILE datagram by its elements, and whether
\* the path holds a '?'
DeletePath(d) == create_relative_path(Bytes(d, HDR_SIZE + 1, Len(d)))
HasWildcard(d) == \E k \in (HDR_SIZE + 1)..Len(d) : d[k] = 63

\* the files of the directory parent that are not directories and whose FCB
\* name in the listing of parent matches the mask
MatchingFiles(fs, cv, t, parent, mask) ==
    LET Among(names, list) ==
            { Append(parent, names[k]) : k \in
                { j \in 1..Len(names) :
                    /\ Bit(list[j + 2].attrs, FAT_DIRECTORY) = 0
                    /\ match_fcb_name_to_mask(short_name_to_fcb(mask),
                                              list[j + 2].fcb_name) } }
    IN  Among(directory_iterator(fs, parent),
              create_directory_list([EmptyItem EXCEPT !.path = parent],
                                    fs, cv, t).item.directory_list)

\* C35 as stated: a DELETE_FILE whose path does not exist is answered with
\* FILE_NOT_FOUND and deletes nothing when the path holds no '?'; when it
\* holds a '?', the files of the parent's listing that are not directories
\* and whose FCB name matches the mask are deleted, all of them, and no
\* directory is
C35_Stated ==
    [][(DeleteServed(obs') /\ ~fs_exists(fsys, root \o DeletePath(obs'.dgram))) =>
         IF ~HasWildcard(obs'.dgram)
         THEN ReplyAx(obs'.sent) = DOS_EXTERR_FILE_NOT_FOUND /\ fsys' = fsys
         ELSE /\ fsys'.dirs = fsys.dirs
              /\ DOMAIN fsys'.files =
                    DOMAIN fsys.files
                    \ MatchingFiles(fsys, conv, now,
                                    root \o parent_path(DeletePath(obs'.dgram)),
                                    filename(DeletePath(obs'.dgram)))]_vars

\* what delete_files does with a path that does not exist below an existing
\* directory: the attribute byte of the missing path is FAT_ERROR_ATTR, which
\* has the READ-ONLY bit, so the answer is ACCESS_DENIED and nothing is
\* deleted, with or without '?'
C35_AccessDenied ==
    [][(/\ DeleteServed(obs')
        /\ ~fs_exists(fsys, root \o DeletePath(obs'.dgram))
        /\ fs_is_directory(fsys, root \o parent_path(DeletePath(obs'.dgram)))) =>
         ReplyAx(obs'.sent) = DOS_EXTERR_ACCESS_DENIED /\ fsys' = fsys]_vars

\* DELETE_FILE \D\? was answered with ACCESS_DENIED while d holds a and b
C35_NothingSwept ==
    /\ DeleteServed(obs)
    /\ HasWildcard(obs.dgram)
    /\ Len(DeletePath(obs.dgram)) = 2
    /\ ReplyAx(obs.sent) = DOS_EXTERR_ACCESS_DENIED
    /\ root \o << <<100>>, <<97>> >> \in DOMAIN fsys.files
    /\ root \o << <<100>>, <<98>> >> \in DOMAIN fsys.files

\* bytes put behind the first L bytes of a datagram: none, or three
Tails == { << >>, << 255, 0, 92 >> }

\* the datagram just served holds its advertised length L of bytes: every
\* datagram with the same first L bytes and other bytes, or none, behind them
\* leaves the same reply cache, handle table and filesystem and gets the same
\* reply when it is received in the state this one was received in
SameAsTwins(d, peer) ==
    \A tail \in Tails :
        \E m \in { main_loop(cache, items, fsys, conv, now, peer,
                             Bytes(d, 1, Advertised(d)) \o tail) } :
            /\ m.cache = cache'
            /\ m.items = items'
            /\ m.fsys = fsys'
            /\ m.sent = obs'.sent

\* C36: bytes beyond the advertised length never influence the server: two
\* datagrams from the same peer, received in the same state, that agree on
\* their first L bytes and differ only behind them produce the same reply
\* and the same reply cache and drive state
C36_Tail ==
    [][(now' = now /\ obs'.peer # 0 /\ Len(obs'.dgram) >= Advertised(obs'.dgram)) =>
         SameAsTwins(obs'.dgram, Peer(obs'.peer))]_vars

\* a datagram with bytes behind its advertised length was served and answered
C36_Witness ==
    /\ obs.peer # 0
    /\ obs.valid
    /\ Advertised(obs.dgram) >= HDR_SIZE
    /\ Len(obs.dgram) > Advertised(obs.dgram)
    /\ obs.sent # << >>


\* a RENAME_FILE datagram reached its case of the switch
RenameServed(o) == o.valid /\ ~o.hit /\ o.fn = INT2F_RENAME_FILE

\* the body of a request datagram
RenameBody(d) == Bytes(d, HDR_SIZE + 1, Len(d))

\* a slice of a body of body_len bytes lies inside the body
SliceInside(s, body_len) == s.from >= 0 /\ s.len >= 0 /\ s.from + s.len <= body_len

\* what the rename of the first path1_len bytes behind the length byte to the
\* rest of the body leaves, and its answer
RenameOfBody(body, path1_len, its, fs, cv, t) ==
    drive_rename_file(its, fs, cv, t,
                      create_relative_path(Bytes(body, 2, 1 + path1_len)),
                      create_relative_path(Bytes(body, 2 + path1_len, Len(body))))

\* the answer to body is that of the rename of its two paths
AnswersRename(r, sent, its, fs) ==
    /\ ReplyAx(sent) = IF r.exc # "none" THEN DOS_EXTERR_ACCESS_DENIED
                       ELSE DOS_EXTERR_NO_ERROR
    /\ its = r.items
    /\ fs = r.fsys

\* C37 as stated: for every RENAME_FILE body the two slices handed to
\* create_relative_path lie inside the body and the second length is not
\* negative; a body whose first-path length is not smaller than the body
\* length is answered with FILE_NOT_FOUND and no path is read
C37_Stated ==
    [][(RenameServed(obs') /\ Len(RenameBody(obs'.dgram)) >= 1) =>
         IF RenameBody(obs'.dgram)[1] >= Len(RenameBody(obs'.dgram))
         THEN /\ ReplyAx(obs'.sent) = DOS_EXTERR_FILE_NOT_FOUND
              /\ fsys' = fsys /\ items' = items
         ELSE /\ SliceInside(rename_paths(Len(RenameBody(obs'.dgram)),
                                          RenameBody(obs'.dgram)[1]).old,
                             Len(RenameBody(obs'.dgram)))
              /\ SliceInside(rename_paths(Len(RenameBody(obs'.dgram)),
                                          RenameBody(obs'.dgram)[1]).new,
                             Len(RenameBody(obs'.dgram)))]_vars

\* C37: a RENAME_FILE body of fewer than 3 bytes is dropped unread and
\* unanswered; a longer one whose first-path length is not smaller than the
\* body length is answered with FILE_NOT_FOUND and no path is read; for any
\* other the two slices handed to create_relative_path lie inside the body,
\* the second length is the rest of the body and not negative, and the answer
\* is that of renaming the one slice to the other
C37_Slices ==
    [][RenameServed(obs') =>
         \E body \in { RenameBody(obs'.dgram) } :
           IF Len(body) < 3
           THEN obs'.sent = << >> /\ fsys' = fsys /\ items' = items
           ELSE IF body[1] >= Len(body)
           THEN /\ ~rename_paths(Len(body), body[1]).read
                /\ ReplyAx(obs'.sent) = DOS_EXTERR_FILE_NOT_FOUND
                /\ fsys' = fsys /\ items' = items
           ELSE /\ rename_paths(Len(body), body[1]).read
                /\ SliceInside(rename_paths(Len(body), body[1]).old, Len(body))
                /\ SliceInside(rename_paths(Len(body), body[1]).new, Len(body))
                /\ rename_paths(Len(body), body[1]).new.len = Len(body) - 1 - body[1]
                /\ AnswersRename(RenameOfBody(body, body[1], items, fsys, conv, now),
                                 obs'.sent, items', fsys')]_vars

\* a RENAME_FILE whose second path is empty (the first takes the whole rest
\* of the body) was answered, and so was one whose first-path length is above
\* the body length; the file g was renamed
C37_Witness ==
    /\ RenameServed(obs)
    /\ Len(RenameBody(obs.dgram)) = 5
    /\ RenameBody(obs.dgram)[1] = 4
    /\ ReplyAx(obs.sent) = DOS_EXTERR_ACCESS_DENIED
    /\ obs.prev.fn = INT2F_RENAME_FILE
    /\ ReplyAx(obs.prev.reply) = DOS_EXTERR_FILE_NOT_FOUND
    /\ root \o << <<104>> >> \in DOMAIN fsys.files


\* the bits a & (RO | HIDDEN | SYSTEM | ARCHIVE), bit by bit
PersistedBits(a) ==
    FAT_RO * Bit(a, FAT_RO) + FAT_HIDDEN * Bit(a, FAT_HIDDEN)
    + FAT_SYSTEM * Bit(a, FAT_SYSTEM) + FAT_ARCHIVE * Bit(a, FAT_ARCHIVE)

\* C38: after set_dos_attrs_to_extended(path, a) succeeds, whatever the kind
\* of path and whatever its attribute held before, get_dos_attrs_from_extended
\* of the path returns a & (RO | HIDDEN | SYSTEM | ARCHIVE)
C38_RoundTrip ==
    [][(call'.op = "set_dos_attrs_to_extended" /\ ~call'.threw) =>
         /\ ~get_dos_attrs_from_extended(fsys', call'.path).threw
         /\ get_dos_attrs_from_extended(fsys', call'.path).attrs
               = PersistedBits(call'.attrs)]_vars

\* set_dos_attrs_to_extended succeeded with a byte whose persisted bits are
\* the default of a file, on the file, which had the attribute with another
\* byte; the attribute is gone and the directory keeps its own
C38_Witness ==
    /\ call.op = "set_dos_attrs_to_extended"
    /\ ~call.threw
    /\ call.attrs = 48
    /\ call.path = root \o << <<103>> >>
    /\ call.had
    /\ call.path \notin DOMAIN fsys.xattr
    /\ root \o << <<100>> >> \in DOMAIN fsys.xattr
    /\ fsys.xattr[root \o << <<100>> >>] = 255


\* recv_decode_slip returned the headers followed by the payload of the frame
\* last sent
Delivered(c) ==
    /\ c.ret = Len(c.headers) + Len(c.data)
    /\ c.rx = c.headers \o c.data

\* C39 as stated: for every payload of at most MTU bytes accepted by send,
\* recv_decode_slip fed with the bytes encode_slip wrote yields the IP and UDP
\* headers followed by the payload
C39_Stated ==
    (call.op = "recv_decode_slip" /\ call.complete) => Delivered(call)

\* what the decoder does deliver: every frame whose headers and payload
\* together are shorter than rx_buffer, also when the line dropped the
\* closing SLIP_END
C39_ShortFrames ==
    (call.op = "recv_decode_slip"
     /\ Len(call.headers) + Len(call.data) < RX_BUFFER_SIZE) => Delivered(call)

\* a frame of the payload that fills rx_buffer, without a byte to escape, is
\* not delivered: recv_decode_slip returns 0
C39_NotDelivered ==
    /\ call.op = "recv_decode_slip"
    /\ call.complete
    /\ Len(call.data) = RX_BUFFER_SIZE - NET_HEADERS_SIZE
    /\ \A i \in 1..Len(call.data) : call.data[i] = 0
    /\ call.ret = 0

\* the bytes of seq that SLIP escapes
Escapes(seq) == Cardinality({ i \in 1..Len(seq) : seq[i] \in {SLIP_END, SLIP_ESC} })

\* C40 as stated: for every payload accepted by send, encode_slip writes at
\* most tx_buffer.size() = 2 * MTU bytes
C40_Stated ==
    (call.op = "send" /\ ~call.rejected) => call.tx_len <= TX_BUFFER_SIZE

\* what encode_slip writes: the two delimiters, the headers and the payload,
\* and one byte more for each of their bytes that is escaped
C40_Written ==
    (call.op = "send" /\ ~call.rejected) =>
        call.tx_len = 2 + Len(call.headers) + Escapes(call.headers)
                      + Len(call.data) + Escapes(call.data)

\* a payload of MTU bytes, each of them SLIP_END, was encoded into more bytes
\* than tx_buffer holds
C40_Overflow ==
    /\ call.op = "send"
    /\ ~call.rejected
    /\ Len(call.data) = MTU
    /\ \A i \in 1..Len(call.data) : call.data[i] = SLIP_END
    /\ call.tx_len > TX_BUFFER_SIZE

====
